---- MODULE Spec2Model ----
(***************************************************************************)
(* Harfizer: numbers, dates and times spelled out in words.                *)
(*                                                                         *)
(* The model covers the eight locale plugins (Persian, English, German,    *)
(* French, Spanish, Russian, Chinese, Japanese), the CoreConverter that    *)
(* wraps a plugin, and the legacy HarfizerConverter.                       *)
(*                                                                         *)
(* Strings are TLA+ strings; the JavaScript string primitives used by the  *)
(* code (trim, slice, substring, indexOf, replace, startsWith, endsWith,   *)
(* split, join) are operators below, with JavaScript's 0-based indices.    *)
(*                                                                         *)
(* Module text is ASCII, so the words of the lexicons are transliterated,  *)
(* one ASCII word per source word, distinct source words staying distinct: *)
(*   Persian  : Latin transliteration  (yek = یک, hezar = هزار, o = و)     *)
(*   Russian  : Latin transliteration  (odin = один, tysyacha = тысяча)    *)
(*   French / Spanish : accents dropped (zero = zéro, millon = millón)     *)
(*   German   : ue = ü, oe = ö, ss = ß (fuenf = fünf, dreissig = dreißig)  *)
(*   Chinese  : one capitalised pinyin syllable per character              *)
(*              (San = 三, Bai = 百, Ling = 零, Yi = 一, Yii = 亿)          *)
(*   Japanese : one capitalised romaji word per character                  *)
(*              (San = 三, Hyaku = 百, Man = 万, Mainasu = マイナス)        *)
(* An input is the string input.toString() of the InputNumber.             *)
(***************************************************************************)
EXTENDS Integers, Sequences, FiniteSets, TLC

VARIABLES plugin, operation, input, options, config, calendar, result, initial

vars == <<plugin, operation, input, options, config, calendar, result, initial>>

\* what a call is made of: the engine, the method, its arguments and, for a
\* HarfizerConverter instance, the configuration it was constructed with;
\* initial keeps the options object as the caller built it and the
\* configuration as the constructor received it
call == <<plugin, operation, input, options, config, calendar, initial>>

(***************************************************************************)
(* JavaScript string primitives                                            *)
(***************************************************************************)
Char(s, i) == SubSeq(s, i, i)

Digits == {"0", "1", "2", "3", "4", "5", "6", "7", "8", "9"}

\* the characters of \s that the model's inputs can contain
Whitespace == {" ", "\t", "\n"}

\* the character class [,\s-] of the cleaning regular expression
GroupingChars == {",", "-"} \cup Whitespace

Max(a, b) == IF a >= b THEN a ELSE b

StartsWith(s, p) == Len(s) >= Len(p) /\ SubSeq(s, 1, Len(p)) = p

EndsWith(s, p) == Len(s) >= Len(p) /\ SubSeq(s, Len(s) - Len(p) + 1, Len(s)) = p

\* s.substring(a, b) and s.substring(a), 0-based, end exclusive
Substring(s, a, b) == SubSeq(s, a + 1, b)

SubstringFrom(s, a) == SubSeq(s, a + 1, Len(s))

\* s.indexOf(c) for a one-character c; -1 when absent
IndexOf(s, c) ==
  LET I == {i \in 1..Len(s) : Char(s, i) = c}
  IN  IF I = {} THEN -1 ELSE (CHOOSE i \in I : \A j \in I : i <= j) - 1

Includes(s, c) == IndexOf(s, c) > -1

\* s.trim(): from the first to the last character that is not whitespace
Trim(s) ==
  LET kept == {i \in 1..Len(s) : Char(s, i) \notin Whitespace}
  IN  IF kept = {} THEN ""
      ELSE SubSeq(s, CHOOSE i \in kept : \A j \in kept : i <= j,
                     CHOOSE i \in kept : \A j \in kept : i >= j)

\* s.replace(/[,\s-]/g, ""), computed by halves to keep the recursion shallow
\* a cleaning that keeps the '-' characters inside the digits: C9 tells it
\* from the code's
RECURSIVE StripGrouping_KeepsDash(_)
StripGrouping_KeepsDash(s) ==
  IF Len(s) = 0 THEN ""
  ELSE IF Len(s) = 1 THEN (IF s \in GroupingChars \ {"-"} THEN "" ELSE s)
  ELSE StripGrouping_KeepsDash(SubSeq(s, 1, Len(s) \div 2))
         \o StripGrouping_KeepsDash(SubSeq(s, Len(s) \div 2 + 1, Len(s)))

RECURSIVE StripGrouping(_)
StripGrouping(s) ==
  IF Len(s) = 0 THEN ""
  ELSE IF Len(s) = 1 THEN (IF s \in GroupingChars THEN "" ELSE s)
  ELSE StripGrouping(SubSeq(s, 1, Len(s) \div 2))
         \o StripGrouping(SubSeq(s, Len(s) \div 2 + 1, Len(s)))

AllDigits(s) == \A i \in 1..Len(s) : Char(s, i) \in Digits

AllZeros(s) == \A i \in 1..Len(s) : Char(s, i) = "0"

\* a format test that accepts a dot with no digit after it: C10 tells it from
\* the code's
TestUnsignedNumber_OpenFraction(s) ==
  LET p == IndexOf(s, ".")
  IN  IF p = -1
        THEN Len(s) >= 1 /\ AllDigits(s)
        ELSE /\ p >= 1
             /\ AllDigits(Substring(s, 0, p))
             /\ AllDigits(SubstringFrom(s, p + 1))

\* /^\d+(\.\d+)?$/.test(s)
TestUnsignedNumber(s) ==
  LET p == IndexOf(s, ".")
  IN  IF p = -1
        THEN Len(s) >= 1 /\ AllDigits(s)
        ELSE /\ p >= 1
             /\ AllDigits(Substring(s, 0, p))
             /\ Len(s) - (p + 1) >= 1
             /\ AllDigits(SubstringFrom(s, p + 1))

\* /^-?\d+(\.\d+)?$/.test(s)
TestSignedNumber(s) ==
  TestUnsignedNumber(IF StartsWith(s, "-") THEN SubstringFrom(s, 1) ELSE s)

DigitValue(c) ==
  CASE c = "0" -> 0 [] c = "1" -> 1 [] c = "2" -> 2 [] c = "3" -> 3
    [] c = "4" -> 4 [] c = "5" -> 5 [] c = "6" -> 6 [] c = "7" -> 7
    [] c = "8" -> 8 [] c = "9" -> 9

\* parseInt(s, 10) of a string of digits (a digit group)
RECURSIVE ParseInt(_)
ParseInt(s) ==
  IF s = "" THEN 0
  ELSE 10 * ParseInt(SubSeq(s, 1, Len(s) - 1)) + DigitValue(Char(s, Len(s)))

\* n.toString() of a non-negative integer
RECURSIVE NumberToString(_)
NumberToString(n) ==
  IF n < 10 THEN SubSeq("0123456789", n + 1, n + 1)
  ELSE NumberToString(n \div 10) \o SubSeq("0123456789", (n % 10) + 1, (n % 10) + 1)

\* s.split(separator) for a separator that matches one character of seps:
\* the parts of s between those characters, empty parts included
SplitOn(s, seps) ==
  LET cuts   == {i \in 1..Len(s) : Char(s, i) \in seps}
      cut(k) == IF k = 0 THEN 0
                ELSE IF k > Cardinality(cuts) THEN Len(s) + 1
                ELSE CHOOSE i \in cuts : Cardinality({j \in cuts : j < i}) = k - 1
  IN  [k \in 1..(Cardinality(cuts) + 1) |->
         IF cut(k) = cut(k - 1) + 1 THEN ""
         ELSE SubSeq(s, cut(k - 1) + 1, cut(k) - 1)]

\* a JavaScript number that is an integer, or NaN
NaN == [nan |-> TRUE, value |-> 0]

Number(n) == [nan |-> FALSE, value |-> n]

IsNaN(x) == x.nan

\* parseInt(s, 10) of any string: leading whitespace is skipped, one sign is
\* read, then the digits up to the first character that is not a digit; NaN
\* when no digit is read
ParseIntPrefix(s) ==
  LET start == CHOOSE i \in 1..(Len(s) + 1) :
                 /\ \A j \in 1..(i - 1) : Char(s, j) \in Whitespace
                 /\ (i = Len(s) + 1 \/ Char(s, i) \notin Whitespace)
      signed == start <= Len(s) /\ Char(s, start) \in {"+", "-"}
      first  == IF signed THEN start + 1 ELSE start
      stop   == CHOOSE i \in first..(Len(s) + 1) :
                 /\ \A j \in first..(i - 1) : Char(s, j) \in Digits
                 /\ (i = Len(s) + 1 \/ Char(s, i) \notin Digits)
      digits == IF stop = first THEN "" ELSE SubSeq(s, first, stop - 1)
  IN  IF digits = "" THEN NaN
      ELSE IF signed /\ Char(s, start) = "-" THEN Number(0 - ParseInt(digits))
      ELSE Number(ParseInt(digits))

\* x.toString() of a non-negative integer or NaN
NumberText(x) == IF IsNaN(x) THEN "NaN" ELSE NumberToString(x.value)

\* parts.join(sep), computed by halves to keep the recursion shallow
RECURSIVE Join(_, _)
Join(parts, sep) ==
  IF Len(parts) = 0 THEN ""
  ELSE IF Len(parts) = 1 THEN parts[1]
  ELSE Join(SubSeq(parts, 1, Len(parts) \div 2), sep) \o sep
         \o Join(SubSeq(parts, Len(parts) \div 2 + 1, Len(parts)), sep)

\* array[i] of a JavaScript array, 0-based; an index past the end reads
\* undefined, which string concatenation renders as "undefined"
HasIndex(table, i) == i + 1 \in 1..Len(table)

At(table, i) == IF HasIndex(table, i) THEN table[i + 1] ELSE "undefined"

\* array[i] as an element of an array that is joined: Array.prototype.join
\* renders undefined as the empty string
AtJoined(table, i) == IF HasIndex(table, i) THEN table[i + 1] ELSE ""

\* the truthiness of array[i]: undefined and "" are falsy
Truthy(table, i) == HasIndex(table, i) /\ table[i + 1] # ""

(***************************************************************************)
(* ConversionOptions: every field is optional                              *)
(***************************************************************************)
Absent == [given |-> FALSE, val |-> ""]

Given(v) == [given |-> TRUE, val |-> v]

AbsentTable == [given |-> FALSE, val |-> <<>>]

AbsentFlag == [given |-> FALSE, val |-> TRUE]

NoOptions ==
  [useNegativeWord       |-> AbsentFlag,
   customSeparator       |-> Absent,
   customLexicon         |-> AbsentTable,
   customDecimalSuffixes |-> AbsentTable,
   customNegativeWord    |-> Absent,
   customZeroWord        |-> Absent,
   customTimePrefix      |-> Absent]

\* option ?? dflt
Coalesce(option, dflt) == IF option.given THEN option.val ELSE dflt

\* a lookup that ignores the option given: C7 tells it from the code's
OrElse_DefaultOnly(option, dflt) == dflt

\* option || dflt : an empty string is falsy
OrElse(option, dflt) ==
  IF option.given /\ option.val # "" THEN option.val ELSE dflt

\* { ...a, ...b }
Spread(a, b) == [f \in DOMAIN a |-> IF b[f].given THEN b[f] ELSE a[f]]

Returned(text) == [status |-> "returned", value |-> text]

Thrown(message) == [status |-> "thrown", value |-> message]

Pending == [status |-> "pending", value |-> ""]

\* an optional argument that the caller left out
Omitted == "omitted"

InvalidFormat == "Error: Invalid input format."

OutOfRange == "Error: Out of range."

MaxIntegerDigits == 66

MaxFractionDigits == 11

(***************************************************************************)
(* parseFloat(rawInput) === 0 for a validated unsigned decimal string      *)
(* "<integerDigits>.<fractionDigits>".  A double is 0 when the value is 0  *)
(* or rounds to 0, that is when it is at most 2^-1075 =                    *)
(* 2.4703282292062327...e-324 (half of the smallest subnormal, the tie     *)
(* going to the even neighbour 0).  The rounding is exact whatever the     *)
(* number of digits, so the comparison is made with all 752 digits.        *)
(***************************************************************************)
\* the first fraction position whose values all underflow: 10^-325 and below
UnderflowPosition == 325

\* the digits of 2^-1075 = 5^1075 / 10^1075 from its first significant digit,
\* the one at position 324, to its last, the one at position 1075
UnderflowThreshold ==
  "2470328229206232720882843964341106861825299013071623822127928412"
    \o "5033775363510437593264991818081799618989828234772285886546332835"
    \o "5177969898199387398005390939063150356595155702263922908583924491"
    \o "0518443593180284993653615250031937045767824921936562366986365848"
    \o "0757001585769269903706311928279558551332927834338409351978015531"
    \o "2465972635795746227664652728272200563740064854999770965994704540"
    \o "2082816622623785739345073633900796776193057750674017632467360096"
    \o "8951340535537458516661134223766678604162159680461914467291840300"
    \o "5300575308490487653917113865916462395249126236538818796362393732"
    \o "8042389101867234849766823508986338858792562830275599565752445550"
    \o "7255189313690836254779186948667994968324049705821028513185451396"
    \o "213837722826145437693412532098591327667236328125"

\* digit string a, read as 0.a, is at most 0.b: the digits are compared at
\* the first position where they differ, a missing digit counting as 0
DigitsLeq(a, b) ==
  LET digit(s, i) == IF i <= Len(s) THEN DigitValue(Char(s, i)) ELSE 0
      differ      == {i \in 1..Max(Len(a), Len(b)) : digit(a, i) # digit(b, i)}
      first       == CHOOSE i \in differ : \A j \in differ : i <= j
  IN  differ = {} \/ digit(a, first) < digit(b, first)

ParseFloatIsZero(rawInput) ==
  LET p        == IndexOf(rawInput, ".")
      whole    == Substring(rawInput, 0, p)
      fraction == SubstringFrom(rawInput, p + 1)
      nonZero  == {i \in 1..Len(fraction) : Char(fraction, i) # "0"}
      first    == CHOOSE i \in nonZero : \A j \in nonZero : i <= j
  IN  /\ AllZeros(whole)
      /\ \/ nonZero = {}
         \/ first >= UnderflowPosition
         \/ /\ first = UnderflowPosition - 1
            /\ DigitsLeq(SubSeq(fraction, first, Len(fraction)), UnderflowThreshold)

(***************************************************************************)
(* PersianLanguagePlugin                                                   *)
(***************************************************************************)
Persian_DEFAULT_SEPARATOR == " o "

Persian_ZERO_WORD == "sefr"

Persian_NEGATIVE_WORD == "manfi "

Persian_DEFAULT_LEXICON ==
  << <<"", "yek", "do", "se", "chahar", "panj", "shesh", "haft", "hasht", "noh">>,
     <<"dah", "yazdah", "davazdah", "sizdah", "chahardah", "panzdah",
       "shanzdah", "hefdah", "hejdah", "nuzdah", "bist">>,
     <<"", "", "bist", "si", "chehel", "panjah", "shast", "haftad", "hashtad",
       "navad">>,
     <<"", "yeksad", "devist", "sisad", "chaharsad", "pansad", "sheshsad",
       "haftsad", "hashtsad", "nohsad">>,
     <<"", " hezar", " milyun", " milyard", " bilyun", " bilyard", " trilyun",
       " trilyard", " kuadrilyun", " kadrilyard", " kuintilyun",
       " kuantinyard", " sekstilyun", " sekstilyard", " septilyun",
       " septilyard", " oktilyun", " oktilyard", " nanilyun", " nanilyard",
       " desilyun", " desilyard">> >>

Persian_DEFAULT_DECIMAL_SUFFIXES ==
  <<"", "dahom", "sadom", "hezarom", "dah-hezarom", "sad-hezarom", "milyunom",
    "dah-milyunom", "sad-milyunom", "milyardom", "dah-milyardom",
    "sad-milyardom">>

\* the word " ممیز " that introduces the fraction
Persian_DECIMAL_WORD == " momayez "

\* lexicon[t], 0-based
Table(lexicon, t) == IF HasIndex(lexicon, t) THEN lexicon[t + 1] ELSE <<>>

\* the lookups lexicon[t][key] that convertTripleToWords makes for the group
\* num, as pairs <<t, key>> in the order of their evaluation
LexiconReads(num) ==
  LET value     == ParseInt(num)
      unit      == value % 10
      hundreds  == value \div 100
      tens      == (value % 100) \div 10
      remainder == tens * 10 + unit
  IN  IF value = 0 THEN <<>>
      ELSE IF value < 10 THEN << <<0, value>> >>
      ELSE IF value <= 20 THEN << <<1, value - 10>> >>
      ELSE IF value < 100 THEN
        IF unit > 0 THEN << <<2, tens>>, <<0, unit>> >> ELSE << <<2, tens>> >>
      ELSE IF remainder = 0 THEN << <<3, hundreds>> >>
      ELSE IF remainder < 10 THEN << <<3, hundreds>>, <<0, remainder>> >>
      ELSE IF remainder <= 20 THEN << <<3, hundreds>>, <<1, remainder - 10>> >>
      ELSE IF unit > 0 THEN << <<3, hundreds>>, <<2, tens>>, <<0, unit>> >>
      ELSE << <<3, hundreds>>, <<2, tens>> >>

\* convertTripleToWords returns the value undefined, and not a string, when
\* the group takes a single lookup and the table has no such entry
ReturnsUndefined(num, lexicon) ==
  LET reads == LexiconReads(num)
  IN  /\ Len(reads) = 1
      /\ reads[1][1] # 3
      /\ ~HasIndex(Table(lexicon, reads[1][1]), reads[1][2])

\* converted + lexicon[4][k]: a concatenation when either is a string, and
\* the number NaN when both are undefined
WithScale(num, converted, lexicon, k) ==
  IF ReturnsUndefined(num, lexicon) /\ ~HasIndex(Table(lexicon, 4), k) THEN "NaN"
  ELSE converted \o At(Table(lexicon, 4), k)

\* the message of the TypeError that lexicon[t][key] throws when the lexicon
\* has no table t (Node.js), for the first such lookup of reads; "" if every
\* table that is read is there
TypeErrorOf(reads, lexicon) ==
  LET missing == {k \in 1..Len(reads) : ~HasIndex(lexicon, reads[k][1])}
      first   == CHOOSE k \in missing : \A j \in missing : k <= j
  IN  IF missing = {} THEN ""
      ELSE "Cannot read properties of undefined (reading '"
             \o NumberToString(reads[first][2]) \o "')"

PersianConvertTripleToWords(num, lexicon) ==
  LET internalSeparator == Persian_DEFAULT_SEPARATOR
      value     == ParseInt(num)
      unit      == value % 10
      hundreds  == value \div 100
      tens      == (value % 100) \div 10
      remainder == tens * 10 + unit
      head      == <<AtJoined(Table(lexicon, 3), hundreds)>>
  IN  IF value = 0 THEN ""
      ELSE IF value < 10 THEN At(Table(lexicon, 0), value)
      ELSE IF value <= 20 THEN At(Table(lexicon, 1), value - 10)
      ELSE IF value < 100 THEN
        IF unit > 0
          THEN At(Table(lexicon, 2), value \div 10) \o internalSeparator
                 \o At(Table(lexicon, 0), unit)
          ELSE At(Table(lexicon, 2), value \div 10)
      ELSE IF remainder = 0 THEN Join(head, internalSeparator)
      ELSE IF remainder < 10
        THEN Join(Append(head, AtJoined(Table(lexicon, 0), remainder)),
                  internalSeparator)
      ELSE IF remainder <= 20
        THEN Join(Append(head, AtJoined(Table(lexicon, 1), remainder - 10)),
                  internalSeparator)
      ELSE IF unit > 0
        THEN Join(head \o <<AtJoined(Table(lexicon, 2), tens),
                            AtJoined(Table(lexicon, 0), unit)>>,
                  internalSeparator)
      ELSE Join(Append(head, AtJoined(Table(lexicon, 2), tens)), internalSeparator)

PersianSplitIntoTriples(num) ==
  LET mod == Len(num) % 3
      str == IF mod = 1 THEN "00" \o num ELSE IF mod = 2 THEN "0" \o num ELSE num
  IN  [i \in 1..(Len(str) \div 3) |-> SubSeq(str, 3 * i - 2, 3 * i)]

\* the loop over the triples: the words of the non-empty triples, each with
\* the scale lexicon[4][triples.length - (i + 1)] appended
RECURSIVE PersianWordParts(_, _, _)
PersianWordParts(triples, i, lexicon) ==
  IF i >= Len(triples) THEN <<>>
  ELSE LET converted == PersianConvertTripleToWords(triples[i + 1], lexicon)
           rest      == PersianWordParts(triples, i + 1, lexicon)
       IN  IF converted # ""
             THEN <<WithScale(triples[i + 1], converted, lexicon,
                              Len(triples) - (i + 1))>> \o rest
             ELSE rest

\* the lookups lexicon[t][key] of the loop over the triples, from the triple
\* i on: those of each conversion, then the scale of a non-empty triple
RECURSIVE PersianLoopReads(_, _, _)
PersianLoopReads(triples, i, lexicon) ==
  IF i >= Len(triples) THEN <<>>
  ELSE LET converted == PersianConvertTripleToWords(triples[i + 1], lexicon)
       IN  LexiconReads(triples[i + 1])
             \o (IF converted # "" THEN << <<4, Len(triples) - (i + 1)>> >> ELSE <<>>)
             \o PersianLoopReads(triples, i + 1, lexicon)

\* fraction.replace(/0*$/, ""): up to the last character that is not "0"
StripTrailingZeros(s) ==
  LET kept == {i \in 1..Len(s) : Char(s, i) # "0"}
  IN  IF kept = {} THEN "" ELSE SubSeq(s, 1, CHOOSE i \in kept : \A j \in kept : i >= j)

RECURSIVE PersianConvertNumber(_, _)

PersianConvertFractionalPart(fraction, decimalSuffixes) ==
  LET stripped == StripTrailingZeros(fraction)
      limited  == IF Len(stripped) > MaxFractionDigits
                    THEN SubSeq(stripped, 1, MaxFractionDigits) ELSE stripped
  IN  IF stripped = "" THEN ""
      ELSE Persian_DECIMAL_WORD \o PersianConvertNumber(limited, NoOptions).value
             \o " " \o At(decimalSuffixes, Len(limited))

PersianConvertNumber(in, opts) ==
  LET effectiveOptions == Spread(NoOptions, opts)
      trimmed    == Trim(in)
      isNeg      == StartsWith(trimmed, "-")
      cleaned    == IF isNeg THEN "-" \o StripGrouping(SubstringFrom(trimmed, 1))
                    ELSE StripGrouping(trimmed)
      separator  == Coalesce(effectiveOptions.customSeparator, Persian_DEFAULT_SEPARATOR)
      lexicon    == Coalesce(effectiveOptions.customLexicon, Persian_DEFAULT_LEXICON)
      decimalSuffixes == Coalesce(effectiveOptions.customDecimalSuffixes,
                                  Persian_DEFAULT_DECIMAL_SUFFIXES)
      zeroWord   == Coalesce(effectiveOptions.customZeroWord, Persian_ZERO_WORD)
      negativeWord == Coalesce(effectiveOptions.customNegativeWord,
                               Persian_NEGATIVE_WORD)
      isNegative == isNeg \/ StartsWith(cleaned, "-")
      rawInput   == IF StartsWith(cleaned, "-") THEN SubstringFrom(cleaned, 1)
                    ELSE cleaned
      isZero     == IF Includes(rawInput, ".") THEN ParseFloatIsZero(rawInput)
                    ELSE AllZeros(rawInput)
      pointIndex == IndexOf(rawInput, ".")
      inputStr   == IF pointIndex > -1 THEN Substring(rawInput, 0, pointIndex)
                    ELSE rawInput
      fractionPart == IF pointIndex > -1 THEN SubstringFrom(rawInput, pointIndex + 1)
                      ELSE ""
      triples    == PersianSplitIntoTriples(inputStr)
      wordParts  == PersianWordParts(triples, 0, lexicon)
      typeError  == TypeErrorOf(PersianLoopReads(triples, 0, lexicon), lexicon)
      fractionWords == IF Len(fractionPart) > 0
                         THEN PersianConvertFractionalPart(fractionPart, decimalSuffixes)
                         ELSE fractionPart
      negPrefix  == IF isNegative /\ ~EndsWith(negativeWord, " ")
                      THEN negativeWord \o " " ELSE negativeWord
  IN  IF ~TestSignedNumber(cleaned) THEN Thrown(InvalidFormat)
      ELSE IF isZero THEN Returned(zeroWord)
      ELSE IF Len(inputStr) > MaxIntegerDigits THEN Thrown(OutOfRange)
      ELSE IF typeError # "" THEN Thrown(typeError)
      ELSE Returned((IF isNegative THEN negPrefix ELSE "")
                      \o Join(wordParts, separator) \o fractionWords)

(***************************************************************************)
(* HarfizerConverter (the legacy Persian converter with an instance        *)
(* configuration)                                                          *)
(***************************************************************************)
Harfizer_DEFAULT_SEPARATOR == " o "

Harfizer_ZERO_WORD == "sefr"

Harfizer_NEGATIVE_WORD == "manfi "

Harfizer_DEFAULT_LEXICON ==
  << <<"", "yek", "do", "se", "chahar", "panj", "shesh", "haft", "hasht", "noh">>,
     <<"dah", "yazdah", "davazdah", "sizdah", "chahardah", "panzdah",
       "shanzdah", "hefdah", "hejdah", "nuzdah", "bist">>,
     <<"", "", "bist", "si", "chehel", "panjah", "shast", "haftad", "hashtad",
       "navad">>,
     <<"", "yeksad", "devist", "sisad", "chaharsad", "pansad", "sheshsad",
       "haftsad", "hashtsad", "nohsad">>,
     <<"", " hezar", " milyun", " milyard", " bilyun", " bilyard", " trilyun",
       " trilyard", " kuadrilyun", " kadrilyard", " kuintilyun",
       " kuantinyard", " sekstilyun", " sekstilyard", " septilyun",
       " septilyard", " oktilyun", " oktilyard", " nanilyun", " nanilyard",
       " desilyun", " desilyard">> >>

Harfizer_DEFAULT_DECIMAL_SUFFIXES ==
  <<"", "dahom", "sadom", "hezarom", "dah-hezarom", "sad-hezarom", "milyunom",
    "dah-milyunom", "sad-milyunom", "milyardom", "dah-milyardom",
    "sad-milyardom">>

Harfizer_DECIMAL_WORD == " momayez "

HarfizerSplitIntoTriples(num) ==
  LET mod == Len(num) % 3
      str == IF mod = 1 THEN "00" \o num ELSE IF mod = 2 THEN "0" \o num ELSE num
  IN  [i \in 1..(Len(str) \div 3) |-> SubSeq(str, 3 * i - 2, 3 * i)]

HarfizerConvertTripleToWords(num, lexicon) ==
  LET internalSeparator == Harfizer_DEFAULT_SEPARATOR
      value     == ParseInt(num)
      unit      == value % 10
      hundreds  == value \div 100
      tens      == (value % 100) \div 10
      remainder == tens * 10 + unit
      head      == <<AtJoined(Table(lexicon, 3), hundreds)>>
  IN  IF value = 0 THEN ""
      ELSE IF value < 10 THEN At(Table(lexicon, 0), value)
      ELSE IF value <= 20 THEN At(Table(lexicon, 1), value - 10)
      ELSE IF value < 100 THEN
        IF unit > 0
          THEN At(Table(lexicon, 2), value \div 10) \o internalSeparator
                 \o At(Table(lexicon, 0), unit)
          ELSE At(Table(lexicon, 2), value \div 10)
      ELSE IF remainder = 0 THEN Join(head, internalSeparator)
      ELSE IF remainder < 10
        THEN Join(Append(head, AtJoined(Table(lexicon, 0), remainder)),
                  internalSeparator)
      ELSE IF remainder <= 20
        THEN Join(Append(head, AtJoined(Table(lexicon, 1), remainder - 10)),
                  internalSeparator)
      ELSE IF unit > 0
        THEN Join(head \o <<AtJoined(Table(lexicon, 2), tens),
                            AtJoined(Table(lexicon, 0), unit)>>,
                  internalSeparator)
      ELSE Join(Append(head, AtJoined(Table(lexicon, 2), tens)), internalSeparator)

RECURSIVE HarfizerWordParts(_, _, _)
HarfizerWordParts(triples, i, lexicon) ==
  IF i >= Len(triples) THEN <<>>
  ELSE LET converted == HarfizerConvertTripleToWords(triples[i + 1], lexicon)
           rest      == HarfizerWordParts(triples, i + 1, lexicon)
       IN  IF converted # ""
             THEN <<WithScale(triples[i + 1], converted, lexicon,
                              Len(triples) - (i + 1))>> \o rest
             ELSE rest

\* the lookups lexicon[t][key] of the loop over the triples, from the triple
\* i on: those of each conversion, then the scale of a non-empty triple
RECURSIVE HarfizerLoopReads(_, _, _)
HarfizerLoopReads(triples, i, lexicon) ==
  IF i >= Len(triples) THEN <<>>
  ELSE LET converted == HarfizerConvertTripleToWords(triples[i + 1], lexicon)
       IN  LexiconReads(triples[i + 1])
             \o (IF converted # "" THEN << <<4, Len(triples) - (i + 1)>> >> ELSE <<>>)
             \o HarfizerLoopReads(triples, i + 1, lexicon)

RECURSIVE HarfizerConvert(_, _, _)

\* A fractional clause that keeps every digit left after the stripping.
HarfizerConvertFractionalPart_NoLimit(fraction, decimalSuffixes, cfg) ==
  LET stripped == StripTrailingZeros(fraction)
      inner    == [NoOptions EXCEPT
                     !.customDecimalSuffixes = [given |-> TRUE, val |-> decimalSuffixes]]
      words    == HarfizerConvert(stripped, cfg, inner)
  IN  IF stripped = "" THEN Returned("")
      ELSE IF words.status = "thrown" THEN words
      ELSE Returned(Harfizer_DECIMAL_WORD \o words.value
                      \o " " \o At(decimalSuffixes, Len(stripped)))

\* the fraction is converted by this.convert(fraction, {customDecimalSuffixes}):
\* the instance configuration applies to it, the options of the call do not;
\* what that conversion throws, the whole call throws
HarfizerConvertFractionalPart(fraction, decimalSuffixes, cfg) ==
  LET stripped == StripTrailingZeros(fraction)
      limited  == IF Len(stripped) > MaxFractionDigits
                    THEN SubSeq(stripped, 1, MaxFractionDigits) ELSE stripped
      inner    == [NoOptions EXCEPT
                     !.customDecimalSuffixes = [given |-> TRUE, val |-> decimalSuffixes]]
      words    == HarfizerConvert(limited, cfg, inner)
  IN  IF stripped = "" THEN Returned("")
      ELSE IF words.status = "thrown" THEN words
      ELSE Returned(Harfizer_DECIMAL_WORD \o words.value
                      \o " " \o At(decimalSuffixes, Len(limited)))

HarfizerConvert(in, cfg, opts) ==
  LET effectiveOptions == Spread(cfg, opts)
      trimmed    == Trim(in)
      isNeg      == StartsWith(trimmed, "-")
      cleaned    == IF isNeg THEN "-" \o StripGrouping(SubstringFrom(trimmed, 1))
                    ELSE StripGrouping(trimmed)
      separator  == Coalesce(effectiveOptions.customSeparator, Harfizer_DEFAULT_SEPARATOR)
      lexicon    == Coalesce(effectiveOptions.customLexicon, Harfizer_DEFAULT_LEXICON)
      decimalSuffixes == Coalesce(effectiveOptions.customDecimalSuffixes,
                                  Harfizer_DEFAULT_DECIMAL_SUFFIXES)
      zeroWord   == Coalesce(effectiveOptions.customZeroWord, Harfizer_ZERO_WORD)
      negativeWord == Coalesce(effectiveOptions.customNegativeWord,
                               Harfizer_NEGATIVE_WORD)
      isNegative == isNeg \/ StartsWith(cleaned, "-")
      rawInput   == IF StartsWith(cleaned, "-") THEN SubstringFrom(cleaned, 1)
                    ELSE cleaned
      isZero     == IF Includes(rawInput, ".") THEN ParseFloatIsZero(rawInput)
                    ELSE AllZeros(rawInput)
      pointIndex == IndexOf(rawInput, ".")
      inputStr   == IF pointIndex > -1 THEN Substring(rawInput, 0, pointIndex)
                    ELSE rawInput
      fractionPart == IF pointIndex > -1 THEN SubstringFrom(rawInput, pointIndex + 1)
                      ELSE ""
      triples    == HarfizerSplitIntoTriples(inputStr)
      wordParts  == HarfizerWordParts(triples, 0, lexicon)
      typeError  == TypeErrorOf(HarfizerLoopReads(triples, 0, lexicon), lexicon)
      fractionWords == IF Len(fractionPart) > 0
                         THEN HarfizerConvertFractionalPart(fractionPart,
                                                            decimalSuffixes, cfg)
                         ELSE Returned(fractionPart)
      negPrefix  == IF isNegative /\ ~EndsWith(negativeWord, " ")
                      THEN negativeWord \o " " ELSE negativeWord
  IN  IF ~TestSignedNumber(cleaned) THEN Thrown(InvalidFormat)
      ELSE IF isZero THEN Returned(zeroWord)
      ELSE IF Len(inputStr) > MaxIntegerDigits THEN Thrown(OutOfRange)
      ELSE IF typeError # "" THEN Thrown(typeError)
      ELSE IF fractionWords.status = "thrown" THEN fractionWords
      ELSE Returned((IF isNegative THEN negPrefix ELSE "")
                      \o Join(wordParts, separator) \o fractionWords.value)

ConfigAfterCall_MergedInPlace(cfg, opts) == Spread(cfg, opts)

\* this.config after a call of convert: { ...this.config, ...options } builds a
\* new object, and nothing is assigned to this.config or to its fields
ConfigAfterCall(cfg, opts) == cfg

\* static toWords(input, options): new HarfizerConverter(options).convert(input)
HarfizerToWords(in, opts) == HarfizerConvert(in, opts, NoOptions)

(***************************************************************************)
(* Behaviour that the plugins other than the Persian one repeat verbatim   *)
(***************************************************************************)
\* trim, record a leading "-", drop it and every grouping character
CleanInput(in) ==
  LET trimmed == Trim(in)
  IN  IF StartsWith(trimmed, "-")
        THEN [isNegative |-> TRUE, rawInput |-> StripGrouping(SubstringFrom(trimmed, 1))]
        ELSE [isNegative |-> FALSE, rawInput |-> StripGrouping(trimmed)]

\* the groups of a digit string, cut from the right, the first one short
RECURSIVE SplitFromRight(_, _)
SplitFromRight(str, width) ==
  IF Len(str) = 0 THEN <<>>
  ELSE LET start == Max(0, Len(str) - width)
       IN  Append(SplitFromRight(Substring(str, 0, start), width),
                  Substring(str, start, Len(str)))

IntegerPart(rawInput) ==
  LET pointIndex == IndexOf(rawInput, ".")
  IN  IF pointIndex > -1 THEN Substring(rawInput, 0, pointIndex) ELSE rawInput

FractionalPart(rawInput) ==
  LET pointIndex == IndexOf(rawInput, ".")
  IN  IF pointIndex > -1 THEN SubstringFrom(rawInput, pointIndex + 1) ELSE ""

\* fractionalPart.split("").map(d => digitNames[parseInt(d, 10)])
FracTokens(fractionalPart, digitNames) ==
  [i \in 1..Len(fractionalPart) |-> At(digitNames, DigitValue(Char(fractionalPart, i)))]

(***************************************************************************)
(* EnglishLanguagePlugin                                                   *)
(***************************************************************************)
English_DEFAULT_SEPARATOR == " "

English_ZERO_WORD == "zero"

English_NEGATIVE_WORD == "minus"

English_SCALE == <<"", "thousand", "million", "billion", "trillion", "quadrillion">>

English_UNITS ==
  <<"", "one", "two", "three", "four", "five", "six", "seven", "eight", "nine">>

English_TEENS ==
  <<"ten", "eleven", "twelve", "thirteen", "fourteen", "fifteen", "sixteen",
    "seventeen", "eighteen", "nineteen">>

English_TENS ==
  <<"", "", "twenty", "thirty", "forty", "fifty", "sixty", "seventy", "eighty",
    "ninety">>

English_digitNames ==
  <<"zero", "one", "two", "three", "four", "five", "six", "seven", "eight", "nine">>

EnglishConvertBelowThousand(n) ==
  LET hundreds  == n \div 100
      remainder == n % 100
      r1 == IF hundreds > 0 THEN At(English_UNITS, hundreds) \o " hundred" ELSE ""
      r2 == IF remainder > 0 /\ r1 # "" THEN r1 \o " " ELSE r1
  IN  IF remainder > 0
        THEN IF remainder < 10 THEN r2 \o At(English_UNITS, remainder)
             ELSE IF remainder < 20 THEN r2 \o At(English_TEENS, remainder - 10)
             ELSE r2 \o At(English_TENS, remainder \div 10)
                    \o (IF remainder % 10 > 0
                          THEN "-" \o At(English_UNITS, remainder % 10) ELSE "")
        ELSE r2

EnglishSplitIntoTriples(num) == SplitFromRight(num, 3)

EnglishConvertTripleToWords(num) ==
  LET value == ParseInt(num)
  IN  IF value = 0 THEN "" ELSE EnglishConvertBelowThousand(value)

RECURSIVE EnglishWordParts(_, _)
EnglishWordParts(triples, i) ==
  IF i >= Len(triples) THEN <<>>
  ELSE LET converted  == EnglishConvertTripleToWords(triples[i + 1])
           scaleIndex == Len(triples) - i - 1
           scaleWord  == IF scaleIndex > 0 /\ Truthy(English_SCALE, scaleIndex)
                           THEN " " \o At(English_SCALE, scaleIndex) ELSE ""
           rest       == EnglishWordParts(triples, i + 1)
       IN  IF converted # "" THEN <<converted \o scaleWord>> \o rest ELSE rest

EnglishConvertNumber(in, opts) ==
  LET effectiveOptions == Spread(NoOptions, opts)
      zeroWord     == OrElse(effectiveOptions.customZeroWord, English_ZERO_WORD)
      negativeWord == OrElse(effectiveOptions.customNegativeWord, English_NEGATIVE_WORD)
      separator    == OrElse(effectiveOptions.customSeparator, English_DEFAULT_SEPARATOR)
      clean        == CleanInput(in)
      rawInput     == clean.rawInput
      integerPart  == IntegerPart(rawInput)
      fractionalPart == FractionalPart(rawInput)
      wordParts    == EnglishWordParts(EnglishSplitIntoTriples(integerPart), 0)
      whole        == Join(wordParts, separator)
      withFraction == IF Len(fractionalPart) > 0
                        THEN whole \o separator \o "point" \o separator
                               \o Join(FracTokens(fractionalPart, English_digitNames),
                                       separator)
                        ELSE whole
  IN  IF ~TestUnsignedNumber(rawInput) THEN Thrown(InvalidFormat)
      ELSE IF rawInput = "0" \/ rawInput = "0.0" THEN Returned(zeroWord)
      ELSE IF Len(integerPart) > MaxIntegerDigits THEN Thrown(OutOfRange)
      ELSE IF clean.isNegative
        THEN Returned(negativeWord \o separator \o withFraction)
      ELSE Returned(withFraction)

(***************************************************************************)
(* GermanLanguagePlugin                                                    *)
(***************************************************************************)
German_DEFAULT_SEPARATOR == " "

German_ZERO_WORD == "null"

German_NEGATIVE_WORD == "minus"

German_SCALE == <<"", "tausend", "Million", "Milliarde", "Billion", "Billiarde">>

German_UNITS ==
  <<"", "eins", "zwei", "drei", "vier", "fuenf", "sechs", "sieben", "acht", "neun">>

German_TEENS ==
  <<"zehn", "elf", "zwoelf", "dreizehn", "vierzehn", "fuenfzehn", "sechzehn",
    "siebzehn", "achtzehn", "neunzehn">>

German_TENS ==
  <<"", "", "zwanzig", "dreissig", "vierzig", "fuenfzig", "sechzig", "siebzig",
    "achtzig", "neunzig">>

German_digitNames ==
  <<"null", "eins", "zwei", "drei", "vier", "fuenf", "sechs", "sieben", "acht", "neun">>

\* the hundreds and the remainder are written as one word, the unit before
\* the tens
GermanConvertBelowThousand(n) ==
  LET hundreds  == n \div 100
      remainder == n % 100
      remainderText ==
        IF remainder <= 0 THEN ""
        ELSE IF remainder < 10 THEN At(German_UNITS, remainder)
        ELSE IF remainder < 20 THEN At(German_TEENS, remainder - 10)
        ELSE IF remainder % 10 > 0
          THEN At(German_UNITS, remainder % 10) \o "und"
                 \o At(German_TENS, remainder \div 10)
        ELSE At(German_TENS, remainder \div 10)
  IN  IF hundreds > 0
        THEN (IF hundreds = 1 THEN "einhundert"
              ELSE At(German_UNITS, hundreds) \o "hundert") \o remainderText
        ELSE remainderText

GermanSplitIntoTriples(num) == SplitFromRight(num, 3)

GermanConvertTripleToWords(num) ==
  LET value == ParseInt(num)
  IN  IF value = 0 THEN "" ELSE GermanConvertBelowThousand(value)

RECURSIVE GermanWordParts(_, _)
GermanWordParts(triples, i) ==
  IF i >= Len(triples) THEN <<>>
  ELSE LET converted  == GermanConvertTripleToWords(triples[i + 1])
           scaleIndex == Len(triples) - i - 1
           scaleWord  == IF scaleIndex > 0 /\ Truthy(German_SCALE, scaleIndex)
                           THEN " " \o At(German_SCALE, scaleIndex) ELSE ""
           rest       == GermanWordParts(triples, i + 1)
       IN  IF converted # "" THEN <<converted \o scaleWord>> \o rest ELSE rest

GermanConvertNumber(in, opts) ==
  LET effectiveOptions == Spread(NoOptions, opts)
      zeroWord     == OrElse(effectiveOptions.customZeroWord, German_ZERO_WORD)
      negativeWord == OrElse(effectiveOptions.customNegativeWord, German_NEGATIVE_WORD)
      separator    == OrElse(effectiveOptions.customSeparator, German_DEFAULT_SEPARATOR)
      clean        == CleanInput(in)
      rawInput     == clean.rawInput
      integerPart  == IntegerPart(rawInput)
      fractionalPart == FractionalPart(rawInput)
      wordParts    == GermanWordParts(GermanSplitIntoTriples(integerPart), 0)
      whole        == Join(wordParts, separator)
      withFraction == IF Len(fractionalPart) > 0
                        THEN whole \o separator \o "Komma" \o separator
                               \o Join(FracTokens(fractionalPart, German_digitNames),
                                       separator)
                        ELSE whole
  IN  IF ~TestUnsignedNumber(rawInput) THEN Thrown(InvalidFormat)
      ELSE IF rawInput = "0" \/ rawInput = "0.0" THEN Returned(zeroWord)
      ELSE IF Len(integerPart) > MaxIntegerDigits THEN Thrown(OutOfRange)
      ELSE IF clean.isNegative
        THEN Returned(negativeWord \o separator \o withFraction)
      ELSE Returned(withFraction)

(***************************************************************************)
(* RussianLanguagePlugin                                                   *)
(***************************************************************************)
Russian_DEFAULT_SEPARATOR == " "

Russian_ZERO_WORD == "nol"

Russian_NEGATIVE_WORD == "minus"

Russian_SCALE == <<"", "tysyacha", "million", "milliard", "trillion", "kvadrillion">>

Russian_DIGITS ==
  <<"", "odin", "dva", "tri", "chetyre", "pyat", "shest", "sem", "vosem", "devyat">>

Russian_TEENS ==
  <<"desyat", "odinnadtsat", "dvenadtsat", "trinadtsat", "chetyrnadtsat",
    "pyatnadtsat", "shestnadtsat", "semnadtsat", "vosemnadtsat", "devyatnadtsat">>

Russian_TENS ==
  <<"", "", "dvadtsat", "tridtsat", "sorok", "pyatdesyat", "shestdesyat",
    "semdesyat", "vosemdesyat", "devyanosto">>

Russian_HUNDREDS ==
  <<"", "sto", "dvesti", "trista", "chetyresta", "pyatsot", "shestsot", "semsot",
    "vosemsot", "devyatsot">>

Russian_digitNames ==
  <<"nol", "odin", "dva", "tri", "chetyre", "pyat", "shest", "sem", "vosem",
    "devyat">>

\* a conversion that reads the tens table for 10..19 as well, where the table
\* holds no word: C11 tells it from the code's
RussianConvertBelowThousand_TensForTeens(n) ==
  LET hundreds  == n \div 100
      remainder == n % 100
      r1  == IF hundreds > 0 THEN At(Russian_HUNDREDS, hundreds) ELSE ""
      gap == IF r1 # "" THEN " " ELSE ""
  IN  IF remainder > 0
        THEN IF remainder < 10 THEN r1 \o gap \o At(Russian_DIGITS, remainder)
             ELSE r1 \o gap \o At(Russian_TENS, remainder \div 10)
                    \o (IF remainder % 10 > 0
                          THEN " " \o At(Russian_DIGITS, remainder % 10) ELSE "")
        ELSE r1

RussianConvertBelowThousand(n) ==
  LET hundreds  == n \div 100
      remainder == n % 100
      r1  == IF hundreds > 0 THEN At(Russian_HUNDREDS, hundreds) ELSE ""
      gap == IF r1 # "" THEN " " ELSE ""
  IN  IF remainder > 0
        THEN IF remainder < 10 THEN r1 \o gap \o At(Russian_DIGITS, remainder)
             ELSE IF remainder < 20 THEN r1 \o gap \o At(Russian_TEENS, remainder - 10)
             ELSE r1 \o gap \o At(Russian_TENS, remainder \div 10)
                    \o (IF remainder % 10 > 0
                          THEN " " \o At(Russian_DIGITS, remainder % 10) ELSE "")
        ELSE r1

RussianSplitIntoTriples(num) == SplitFromRight(num, 3)

RussianConvertTripleToWords(num) ==
  LET value == ParseInt(num)
  IN  IF value = 0 THEN "" ELSE RussianConvertBelowThousand(value)

RECURSIVE RussianWordParts(_, _)
RussianWordParts(triples, i) ==
  IF i >= Len(triples) THEN <<>>
  ELSE LET converted  == RussianConvertTripleToWords(triples[i + 1])
           scaleIndex == Len(triples) - i - 1
           scaleWord  == IF scaleIndex > 0 /\ Truthy(Russian_SCALE, scaleIndex)
                           THEN " " \o At(Russian_SCALE, scaleIndex) ELSE ""
           rest       == RussianWordParts(triples, i + 1)
       IN  IF converted # "" THEN <<converted \o scaleWord>> \o rest ELSE rest

RussianConvertNumber(in, opts) ==
  LET effectiveOptions == Spread(NoOptions, opts)
      zeroWord     == OrElse(effectiveOptions.customZeroWord, Russian_ZERO_WORD)
      negativeWord == OrElse(effectiveOptions.customNegativeWord, Russian_NEGATIVE_WORD)
      separator    == OrElse(effectiveOptions.customSeparator, Russian_DEFAULT_SEPARATOR)
      clean        == CleanInput(in)
      rawInput     == clean.rawInput
      integerPart  == IntegerPart(rawInput)
      fractionalPart == FractionalPart(rawInput)
      wordParts    == RussianWordParts(RussianSplitIntoTriples(integerPart), 0)
      whole        == Join(wordParts, separator)
      withFraction == IF Len(fractionalPart) > 0
                        THEN whole \o separator \o "zapyataya" \o separator
                               \o Join(FracTokens(fractionalPart, Russian_digitNames),
                                       separator)
                        ELSE whole
  IN  IF ~TestUnsignedNumber(rawInput) THEN Thrown(InvalidFormat)
      ELSE IF rawInput = "0" \/ rawInput = "0.0" THEN Returned(zeroWord)
      ELSE IF Len(integerPart) > MaxIntegerDigits THEN Thrown(OutOfRange)
      ELSE IF clean.isNegative
        THEN Returned(negativeWord \o separator \o withFraction)
      ELSE Returned(withFraction)

(***************************************************************************)
(* FrenchLanguagePlugin                                                    *)
(***************************************************************************)
French_DEFAULT_SEPARATOR == " "

French_ZERO_WORD == "zero"

French_NEGATIVE_WORD == "moins"

French_SCALE ==
  <<"", "mille", "million", "milliard", "billion", "billiard", "trillion",
    "trilliard", "quadrillion", "quadrilliard", "quintillion", "quintilliard",
    "sextillion", "sextilliard", "septillion", "septilliard", "octillion",
    "octilliard", "nonillion", "nonilliard", "decillion", "decilliard">>

French_units ==
  <<"zero", "un", "deux", "trois", "quatre", "cinq", "six", "sept", "huit", "neuf">>

French_teens == <<"dix", "onze", "douze", "treize", "quatorze", "quinze", "seize">>

French_tensArray == <<"", "", "vingt", "trente", "quarante", "cinquante", "soixante">>

French_digitNames ==
  <<"zero", "un", "deux", "trois", "quatre", "cinq", "six", "sept", "huit", "neuf">>

RECURSIVE FrenchConvertBelowHundred(_)
FrenchConvertBelowHundred(n) ==
  IF n < 10 THEN At(French_units, n)
  ELSE IF n >= 10 /\ n < 17 THEN At(French_teens, n - 10)
  ELSE IF n < 20 THEN "dix-" \o At(French_units, n - 10)
  ELSE IF n < 70 THEN
    IF n % 10 = 0 THEN At(French_tensArray, n \div 10)
    ELSE IF n % 10 = 1 THEN At(French_tensArray, n \div 10) \o " et un"
    ELSE At(French_tensArray, n \div 10) \o "-" \o At(French_units, n % 10)
  ELSE IF n < 80 THEN
    IF n - 60 = 1 THEN "soixante et onze"
    ELSE "soixante-" \o FrenchConvertBelowHundred(10 + (n - 60))
  ELSE IF n < 100 THEN
    IF n = 80 THEN "quatre-vingts"
    ELSE "quatre-vingt-" \o FrenchConvertBelowHundred(n - 80)
  ELSE ""

FrenchConvertBelowThousand(n) ==
  LET hundreds  == n \div 100
      remainder == n % 100
      cent == IF hundreds > 0
                THEN (IF hundreds = 1 THEN "cent"
                      ELSE FrenchConvertBelowHundred(hundreds) \o " cent")
                       \o (IF remainder = 0 /\ hundreds > 1 THEN "s" ELSE "")
                ELSE ""
  IN  IF remainder > 0
        THEN cent \o (IF cent # "" THEN " " ELSE "")
               \o FrenchConvertBelowHundred(remainder)
        ELSE cent

FrenchSplitIntoTriples(num) == SplitFromRight(num, 3)

FrenchConvertTripleToWords(num) ==
  LET value == ParseInt(num)
  IN  IF value = 0 THEN "" ELSE FrenchConvertBelowThousand(value)

\* the loop over the triples: the words of a group and its scale word are
\* separate tokens
\* A loop that gives the plural to every scale word, mille included.
RECURSIVE FrenchTokens_PluralFromThousand(_, _)
FrenchTokens_PluralFromThousand(triples, i) ==
  IF i >= Len(triples) THEN <<>>
  ELSE LET groupNum   == ParseInt(triples[i + 1])
           scaleIndex == Len(triples) - i - 1
           scaleWord  == At(French_SCALE, scaleIndex)
           finalScale == IF groupNum > 1 THEN scaleWord \o "s" ELSE scaleWord
           rest       == FrenchTokens_PluralFromThousand(triples, i + 1)
       IN  IF groupNum = 0 THEN rest
           ELSE IF scaleIndex = 1 /\ groupNum = 1 THEN <<scaleWord>> \o rest
           ELSE IF scaleIndex > 0
             THEN <<FrenchConvertBelowThousand(groupNum), finalScale>> \o rest
           ELSE <<FrenchConvertBelowThousand(groupNum)>> \o rest

RECURSIVE FrenchTokens(_, _)
FrenchTokens(triples, i) ==
  IF i >= Len(triples) THEN <<>>
  ELSE LET groupNum   == ParseInt(triples[i + 1])
           scaleIndex == Len(triples) - i - 1
           scaleWord  == At(French_SCALE, scaleIndex)
           finalScale == IF scaleIndex >= 2
                           THEN (IF groupNum > 1 THEN scaleWord \o "s" ELSE scaleWord)
                           ELSE scaleWord
           rest       == FrenchTokens(triples, i + 1)
       IN  IF groupNum = 0 THEN rest
           ELSE IF scaleIndex = 1 /\ groupNum = 1 THEN <<scaleWord>> \o rest
           ELSE IF scaleIndex > 0
             THEN <<FrenchConvertBelowThousand(groupNum), finalScale>> \o rest
           ELSE <<FrenchConvertBelowThousand(groupNum)>> \o rest

FrenchConvertNumber(in, opts) ==
  LET effectiveOptions == Spread(NoOptions, opts)
      zeroWord     == OrElse(effectiveOptions.customZeroWord, French_ZERO_WORD)
      negativeWord == OrElse(effectiveOptions.customNegativeWord, French_NEGATIVE_WORD)
      separator    == OrElse(effectiveOptions.customSeparator, French_DEFAULT_SEPARATOR)
      clean        == CleanInput(in)
      rawInput     == clean.rawInput
      integerPart  == IntegerPart(rawInput)
      fractionalPart == FractionalPart(rawInput)
      tokens       == FrenchTokens(FrenchSplitIntoTriples(integerPart), 0)
      whole        == Join(tokens, separator)
      withFraction == IF Len(fractionalPart) > 0
                        THEN whole \o separator \o "virgule" \o separator
                               \o Join(FracTokens(fractionalPart, French_digitNames),
                                       separator)
                        ELSE whole
  IN  IF ~TestUnsignedNumber(rawInput) THEN Thrown(InvalidFormat)
      ELSE IF rawInput = "0" \/ rawInput = "0.0" THEN Returned(zeroWord)
      ELSE IF Len(integerPart) > MaxIntegerDigits THEN Thrown(OutOfRange)
      ELSE IF clean.isNegative
        THEN Returned(negativeWord \o separator \o withFraction)
      ELSE Returned(withFraction)

(***************************************************************************)
(* SpanishLanguagePlugin                                                   *)
(***************************************************************************)
Spanish_DEFAULT_SEPARATOR == " "

Spanish_ZERO_WORD == "cero"

Spanish_NEGATIVE_WORD == "menos"

Spanish_SCALE == <<"", "mil", "millon", "mil millones", "billon", "billones">>

Spanish_UNITS ==
  <<"", "uno", "dos", "tres", "cuatro", "cinco", "seis", "siete", "ocho", "nueve">>

Spanish_TEENS ==
  <<"diez", "once", "doce", "trece", "catorce", "quince", "dieciseis",
    "diecisiete", "dieciocho", "diecinueve">>

Spanish_TENS ==
  <<"", "", "veinte", "treinta", "cuarenta", "cincuenta", "sesenta", "setenta",
    "ochenta", "noventa">>

Spanish_HUNDREDS ==
  <<"", "cien", "doscientos", "trescientos", "cuatrocientos", "quinientos",
    "seiscientos", "setecientos", "ochocientos", "novecientos">>

Spanish_veintiForms ==
  <<"veinte", "veintiuno", "veintidos", "veintitres", "veinticuatro",
    "veinticinco", "veintiseis", "veintisiete", "veintiocho", "veintinueve">>

Spanish_digitNames ==
  <<"cero", "uno", "dos", "tres", "cuatro", "cinco", "seis", "siete", "ocho",
    "nueve">>

SpanishConvertBelowThousand(n) ==
  LET hundreds  == n \div 100
      remainder == n % 100
      tens      == remainder \div 10
      unit      == remainder % 10
      remainderText ==
        IF remainder > 0
          THEN IF remainder < 10 THEN At(Spanish_UNITS, remainder)
               ELSE IF remainder < 20 THEN At(Spanish_TEENS, remainder - 10)
               ELSE IF tens = 2 /\ unit > 0 THEN At(Spanish_veintiForms, unit)
               ELSE At(Spanish_TENS, tens)
                      \o (IF unit > 0 THEN " y " \o At(Spanish_UNITS, unit) ELSE "")
          ELSE ""
      hundredWord == IF hundreds = 1
                       THEN (IF remainder = 0 THEN "cien" ELSE "ciento")
                       ELSE At(Spanish_HUNDREDS, hundreds)
  IN  IF hundreds > 0
        THEN hundredWord \o (IF remainderText # "" THEN " " \o remainderText ELSE "")
        ELSE remainderText

SpanishSplitIntoTriples(num) == SplitFromRight(num, 3)

SpanishConvertTripleToWords(num) ==
  LET value == ParseInt(num)
  IN  IF value = 0 THEN "" ELSE SpanishConvertBelowThousand(value)

RECURSIVE SpanishWordParts(_, _)
SpanishWordParts(groups, i) ==
  IF i >= Len(groups) THEN <<>>
  ELSE LET converted  == SpanishConvertTripleToWords(groups[i + 1])
           scaleIndex == Len(groups) - i - 1
           tableWord  == IF scaleIndex > 0 /\ Truthy(Spanish_SCALE, scaleIndex)
                           THEN At(Spanish_SCALE, scaleIndex) ELSE ""
           scaleWord  == IF tableWord = "millon" /\ ParseInt(groups[i + 1]) > 1
                           THEN "millones" ELSE tableWord
           rest       == SpanishWordParts(groups, i + 1)
       IN  IF converted # ""
             THEN <<converted \o (IF scaleWord # "" THEN " " \o scaleWord ELSE "")>>
                    \o rest
             ELSE rest

SpanishConvertNumber(in, opts) ==
  LET effectiveOptions == Spread(NoOptions, opts)
      zeroWord     == OrElse(effectiveOptions.customZeroWord, Spanish_ZERO_WORD)
      negativeWord == OrElse(effectiveOptions.customNegativeWord, Spanish_NEGATIVE_WORD)
      separator    == OrElse(effectiveOptions.customSeparator, Spanish_DEFAULT_SEPARATOR)
      clean        == CleanInput(in)
      rawInput     == clean.rawInput
      integerPart  == IntegerPart(rawInput)
      fractionalPart == FractionalPart(rawInput)
      wordParts    == SpanishWordParts(SpanishSplitIntoTriples(integerPart), 0)
      whole        == Join(wordParts, separator)
      withFraction == IF Len(fractionalPart) > 0
                        THEN whole \o separator \o "punto" \o separator
                               \o Join(FracTokens(fractionalPart, Spanish_digitNames),
                                       separator)
                        ELSE whole
  IN  IF ~TestUnsignedNumber(rawInput) THEN Thrown(InvalidFormat)
      ELSE IF rawInput = "0" \/ rawInput = "0.0" THEN Returned(zeroWord)
      ELSE IF Len(integerPart) > MaxIntegerDigits THEN Thrown(OutOfRange)
      ELSE IF clean.isNegative
        THEN Returned(negativeWord
                        \o (IF withFraction # "" THEN separator \o withFraction ELSE ""))
      ELSE Returned(withFraction)

(***************************************************************************)
(* ChineseLanguagePlugin                                                   *)
(***************************************************************************)
Chinese_DEFAULT_SEPARATOR == " "

Chinese_ZERO_WORD == "Ling"

Chinese_NEGATIVE_WORD == "Fu"

Chinese_SCALE == <<"", "Wan", "Yii", "Zhao">>

Chinese_digits == <<"Ling", "Yi", "Er", "San", "Si", "Wu", "Liu", "Qi", "Ba", "Jiu">>

Chinese_digitNames ==
  <<"Ling", "Yi", "Er", "San", "Si", "Wu", "Liu", "Qi", "Ba", "Jiu">>

\* the characters 十 百 千 点
Chinese_TEN == "Shi"

Chinese_HUNDRED == "Bai"

Chinese_THOUSAND == "Qian"

Chinese_POINT == "Dian"

\* A group conversion that never writes the zero filler.
ChineseConvertBelowTenThousand_NoFiller(n) ==
  (IF n \div 1000 = 0 THEN ""
   ELSE IF n \div 1000 = 1 THEN Chinese_THOUSAND
   ELSE At(Chinese_digits, n \div 1000) \o Chinese_THOUSAND)
  \o (IF (n \div 100) % 10 = 0 THEN ""
      ELSE At(Chinese_digits, (n \div 100) % 10) \o Chinese_HUNDRED)
  \o (IF (n \div 10) % 10 = 0 THEN ""
      ELSE IF (n \div 10) % 10 = 1 THEN Chinese_TEN
      ELSE At(Chinese_digits, (n \div 10) % 10) \o Chinese_TEN)
  \o (IF n % 10 = 0 /\ n > 0 THEN "" ELSE At(Chinese_digits, n % 10))

RECURSIVE ChineseConvertBelowTenThousand(_)
ChineseConvertBelowTenThousand(n) ==
  IF n < 10 THEN At(Chinese_digits, n)
  ELSE IF n < 100 THEN
    IF n = 10 THEN Chinese_TEN
    ELSE (IF n \div 10 = 1 THEN Chinese_TEN
          ELSE At(Chinese_digits, n \div 10) \o Chinese_TEN)
           \o (IF n % 10 # 0 THEN At(Chinese_digits, n % 10) ELSE "")
  ELSE IF n < 1000 THEN
    LET hundreds  == n \div 100
        remainder == n % 100
        head      == At(Chinese_digits, hundreds) \o Chinese_HUNDRED
    IN  IF remainder = 0 THEN head
        ELSE IF remainder < 10
          THEN head \o Chinese_ZERO_WORD \o ChineseConvertBelowTenThousand(remainder)
        ELSE IF remainder \div 10 = 0
          THEN head \o Chinese_ZERO_WORD \o ChineseConvertBelowTenThousand(remainder)
        ELSE head \o ChineseConvertBelowTenThousand(remainder)
  ELSE IF n < 10000 THEN
    LET thousands == n \div 1000
        remainder == n % 1000
        head      == IF thousands = 1 THEN Chinese_THOUSAND
                     ELSE At(Chinese_digits, thousands) \o Chinese_THOUSAND
    IN  IF remainder = 0 THEN head
        ELSE IF remainder < 100
          THEN head \o Chinese_ZERO_WORD \o ChineseConvertBelowTenThousand(remainder)
        ELSE head \o ChineseConvertBelowTenThousand(remainder)
  ELSE ""

ChineseConvertTripleToWords(num) ==
  LET value == ParseInt(num)
  IN  IF value = 0 THEN "" ELSE ChineseConvertBelowTenThousand(value)

ChineseSplitIntoQuadruples(num) == SplitFromRight(num, 4)

\* token += scale[scaleIndex]: an index past the table appends "undefined"
RECURSIVE ChineseTokens(_, _)
ChineseTokens(groups, i) ==
  IF i >= Len(groups) THEN <<>>
  ELSE LET groupNum   == ParseInt(groups[i + 1])
           scaleIndex == Len(groups) - i - 1
           text       == ChineseConvertBelowTenThousand(groupNum)
           token      == IF scaleIndex > 0 THEN text \o At(Chinese_SCALE, scaleIndex)
                         ELSE text
           rest       == ChineseTokens(groups, i + 1)
       IN  IF groupNum = 0 THEN rest ELSE <<token>> \o rest

ChineseConvertNumber(in, opts) ==
  LET effectiveOptions == Spread(NoOptions, opts)
      zeroWord     == OrElse(effectiveOptions.customZeroWord, Chinese_ZERO_WORD)
      negativeWord == OrElse(effectiveOptions.customNegativeWord, Chinese_NEGATIVE_WORD)
      separator    == OrElse(effectiveOptions.customSeparator, Chinese_DEFAULT_SEPARATOR)
      clean        == CleanInput(in)
      rawInput     == clean.rawInput
      integerPart  == IntegerPart(rawInput)
      fractionalPart == FractionalPart(rawInput)
      tokens       == ChineseTokens(ChineseSplitIntoQuadruples(integerPart), 0)
      whole        == Join(tokens, separator)
      withFraction == IF Len(fractionalPart) > 0
                        THEN whole \o separator \o Chinese_POINT \o separator
                               \o Join(FracTokens(fractionalPart, Chinese_digitNames),
                                       separator)
                        ELSE whole
  IN  IF ~TestUnsignedNumber(rawInput) THEN Thrown(InvalidFormat)
      ELSE IF rawInput = "0" \/ rawInput = "0.0" THEN Returned(zeroWord)
      ELSE IF Len(integerPart) > MaxIntegerDigits THEN Thrown(OutOfRange)
      ELSE IF clean.isNegative
        THEN Returned(negativeWord \o separator \o withFraction)
      ELSE Returned(withFraction)

(***************************************************************************)
(* JapaneseLanguagePlugin                                                  *)
(***************************************************************************)
Japanese_DEFAULT_SEPARATOR == " "

Japanese_ZERO_WORD == "Rei"

Japanese_NEGATIVE_WORD == "Mainasu"

Japanese_SCALE == <<"", "Man", "Oku", "Chou", "Kei", "Gai">>

Japanese_digits ==
  <<"Rei", "Ichi", "Ni", "San", "Yon", "Go", "Roku", "Nana", "Hachi", "Kyuu">>

Japanese_digitNames ==
  <<"Rei", "Ichi", "Ni", "San", "Yon", "Go", "Roku", "Nana", "Hachi", "Kyuu">>

\* the characters 十 百 千 点
Japanese_TEN == "Juu"

Japanese_HUNDRED == "Hyaku"

Japanese_THOUSAND == "Sen"

Japanese_POINT == "Ten"

RECURSIVE JapaneseConvertBelowTenThousand(_)
JapaneseConvertBelowTenThousand(n) ==
  IF n < 10 THEN At(Japanese_digits, n)
  ELSE IF n < 100 THEN
    (IF n \div 10 = 1 THEN Japanese_TEN
     ELSE At(Japanese_digits, n \div 10) \o Japanese_TEN)
      \o (IF n % 10 # 0 THEN At(Japanese_digits, n % 10) ELSE "")
  ELSE IF n < 1000 THEN
    (IF n \div 100 = 1 THEN Japanese_HUNDRED
     ELSE At(Japanese_digits, n \div 100) \o Japanese_HUNDRED)
      \o (IF n % 100 # 0 THEN JapaneseConvertBelowTenThousand(n % 100) ELSE "")
  ELSE IF n < 10000 THEN
    (IF n \div 1000 = 1 THEN Japanese_THOUSAND
     ELSE At(Japanese_digits, n \div 1000) \o Japanese_THOUSAND)
      \o (IF n % 1000 # 0 THEN JapaneseConvertBelowTenThousand(n % 1000) ELSE "")
  ELSE ""

JapaneseConvertTripleToWords(num) ==
  LET value == ParseInt(num)
  IN  IF value = 0 THEN "" ELSE JapaneseConvertBelowTenThousand(value)

JapaneseSplitIntoQuadruples(num) == SplitFromRight(num, 4)

RECURSIVE JapaneseTokens(_, _)
JapaneseTokens(groups, i) ==
  IF i >= Len(groups) THEN <<>>
  ELSE LET groupNum   == ParseInt(groups[i + 1])
           scaleIndex == Len(groups) - i - 1
           text       == JapaneseConvertBelowTenThousand(groupNum)
           token      == IF scaleIndex > 0 THEN text \o At(Japanese_SCALE, scaleIndex)
                         ELSE text
           rest       == JapaneseTokens(groups, i + 1)
       IN  IF groupNum = 0 THEN rest ELSE <<token>> \o rest

JapaneseConvertNumber(in, opts) ==
  LET effectiveOptions == Spread(NoOptions, opts)
      zeroWord     == OrElse(effectiveOptions.customZeroWord, Japanese_ZERO_WORD)
      negativeWord == OrElse(effectiveOptions.customNegativeWord, Japanese_NEGATIVE_WORD)
      separator    == OrElse(effectiveOptions.customSeparator, Japanese_DEFAULT_SEPARATOR)
      clean        == CleanInput(in)
      rawInput     == clean.rawInput
      integerPart  == IntegerPart(rawInput)
      fractionalPart == FractionalPart(rawInput)
      tokens       == JapaneseTokens(JapaneseSplitIntoQuadruples(integerPart), 0)
      whole        == Join(tokens, separator)
      withFraction == IF Len(fractionalPart) > 0
                        THEN whole \o separator \o Japanese_POINT \o separator
                               \o Join(FracTokens(fractionalPart, Japanese_digitNames),
                                       separator)
                        ELSE whole
  IN  IF ~TestUnsignedNumber(rawInput) THEN Thrown(InvalidFormat)
      ELSE IF rawInput = "0" \/ rawInput = "0.0" THEN Returned(zeroWord)
      ELSE IF Len(integerPart) > MaxIntegerDigits THEN Thrown(OutOfRange)
      ELSE IF clean.isNegative
        THEN Returned(negativeWord \o separator \o withFraction)
      ELSE Returned(withFraction)

(***************************************************************************)
(* The calls.  A state holds one call: the engine it is made on, its       *)
(* arguments, the configuration of the instance (HarfizerConverter only)   *)
(* and, once the call has run, what it returned or threw.                  *)
(***************************************************************************)
Plugins ==
  {"persian", "english", "german", "french", "spanish", "russian", "chinese",
   "japanese"}

Engines == Plugins \cup {"harfizer", "harfizerStatic"}

\* plugin.convertNumber(input, options) of the plugin named p
ConvertNumber(p, in, opts) ==
  CASE p = "persian"  -> PersianConvertNumber(in, opts)
    [] p = "english"  -> EnglishConvertNumber(in, opts)
    [] p = "german"   -> GermanConvertNumber(in, opts)
    [] p = "french"   -> FrenchConvertNumber(in, opts)
    [] p = "spanish"  -> SpanishConvertNumber(in, opts)
    [] p = "russian"  -> RussianConvertNumber(in, opts)
    [] p = "chinese"  -> ChineseConvertNumber(in, opts)
    [] p = "japanese" -> JapaneseConvertNumber(in, opts)

\* the call of the engine e: a plugin, a HarfizerConverter instance with the
\* configuration cfg, or the static HarfizerConverter.toWords
Convert(e, in, cfg, opts) ==
  CASE e = "harfizer"       -> HarfizerConvert(in, cfg, opts)
    [] e = "harfizerStatic" -> HarfizerToWords(in, opts)
    [] OTHER                -> ConvertNumber(e, in, opts)

PersianCall ==
  /\ plugin = "persian" /\ operation = "convertNumber" /\ result = Pending
  /\ result' = PersianConvertNumber(input, options)
  /\ UNCHANGED call

EnglishCall ==
  /\ plugin = "english" /\ operation = "convertNumber" /\ result = Pending
  /\ result' = EnglishConvertNumber(input, options)
  /\ UNCHANGED call

GermanCall ==
  /\ plugin = "german" /\ operation = "convertNumber" /\ result = Pending
  /\ result' = GermanConvertNumber(input, options)
  /\ UNCHANGED call

FrenchCall ==
  /\ plugin = "french" /\ operation = "convertNumber" /\ result = Pending
  /\ result' = FrenchConvertNumber(input, options)
  /\ UNCHANGED call

SpanishCall ==
  /\ plugin = "spanish" /\ operation = "convertNumber" /\ result = Pending
  /\ result' = SpanishConvertNumber(input, options)
  /\ UNCHANGED call

RussianCall ==
  /\ plugin = "russian" /\ operation = "convertNumber" /\ result = Pending
  /\ result' = RussianConvertNumber(input, options)
  /\ UNCHANGED call

ChineseCall ==
  /\ plugin = "chinese" /\ operation = "convertNumber" /\ result = Pending
  /\ result' = ChineseConvertNumber(input, options)
  /\ UNCHANGED call

JapaneseCall ==
  /\ plugin = "japanese" /\ operation = "convertNumber" /\ result = Pending
  /\ result' = JapaneseConvertNumber(input, options)
  /\ UNCHANGED call

HarfizerConvertCall ==
  /\ plugin = "harfizer" /\ operation = "convertNumber" /\ result = Pending
  /\ result' = HarfizerConvert(input, config, options)
  /\ config' = ConfigAfterCall(config, options)
  /\ UNCHANGED <<plugin, operation, input, options, calendar, initial>>

HarfizerToWordsCall ==
  /\ plugin = "harfizerStatic" /\ operation = "convertNumber" /\ result = Pending
  /\ result' = HarfizerToWords(input, options)
  /\ UNCHANGED call

Next ==
  \/ PersianCall
  \/ EnglishCall
  \/ GermanCall
  \/ FrenchCall
  \/ SpanishCall
  \/ RussianCall
  \/ ChineseCall
  \/ JapaneseCall
  \/ HarfizerConvertCall
  \/ HarfizerToWordsCall

(***************************************************************************)
(* Inputs                                                                  *)
(***************************************************************************)
\* c.repeat(n), computed by halves to keep the recursion shallow
RECURSIVE Repeat(_, _)
Repeat(c, n) ==
  IF n <= 0 THEN ""
  ELSE LET half == Repeat(c, n \div 2)
       IN  half \o half \o (IF n % 2 = 1 THEN c ELSE "")

\* every string of at most n characters of the alphabet
RECURSIVE StringsUpTo(_, _)
StringsUpTo(alphabet, n) ==
  IF n = 0 THEN {""}
  ELSE LET shorter == StringsUpTo(alphabet, n - 1)
       IN  shorter \cup {s \o c : s \in shorter, c \in alphabet}

MaxInputLength == 4

InputAlphabet == {"0", "1", "-", ".", ",", " ", "a"}

\* every short string, well formed or not
ShortInputs == StringsUpTo(InputAlphabet, MaxInputLength)

\* long digit strings, up to and past the limit of 66 integer digits:
\* one repeated digit, one non-zero digit at every position, two non-zero
\* digits at every pair of positions, with and without a fraction or a sign
MaxDigits == 68

LongInputs ==
  LET repeated == {Repeat(d, n) : d \in {"0", "1"}, n \in 1..MaxDigits}
      single   == {Repeat("0", a) \o d \o Repeat("0", n - 1 - a) :
                     a \in {0, 1}, d \in {"1", "2"}, n \in 2..MaxDigits}
      double   == {"1" \o Repeat("0", a) \o "5" \o Repeat("0", n - 2 - a) :
                     a \in {0, 2, 3, 5, 8}, n \in 10..MaxDigits}
      whole    == repeated \cup single \cup double
      edge     == {w \in whole : Len(w) >= MaxIntegerDigits - 1}
  IN  whole \cup {w \o f : w \in edge, f \in {".0", ".5"}}
            \cup {"-" \o w : w \in edge}
            \cup {w \o "a" : w \in edge}

\* fractions: every short one, long ones around the limit of 11 digits,
\* ones around the position where parseFloat underflows to 0, and ones
\* around 2^-1075 itself: its first 40 digits and all its digits, alone and
\* followed by one more digit
MaxFractionLength == 3

MaxLongFraction == 13

FractionInputs ==
  LET short == StringsUpTo({"0", "5"}, MaxFractionLength) \ {""}
      long  == {Repeat(d, n) : d \in {"0", "1"}, n \in 10..MaxLongFraction}
                 \cup {Repeat("0", n - 1) \o "1" : n \in 10..MaxLongFraction}
                 \cup {"1" \o Repeat("0", n - 1) : n \in 10..MaxLongFraction}
      tiny  == {Repeat("0", k - 1) \o d :
                  k \in (UnderflowPosition - 2)..(UnderflowPosition + 1),
                  d \in {"1", "2", "3"}}
      half  == {Repeat("0", UnderflowPosition - 2) \o t \o d :
                  t \in {SubSeq(UnderflowThreshold, 1, 40), UnderflowThreshold},
                  d \in {"", "0", "1", "3"}}
  IN  {w \o "." \o f : w \in {"0", "5", "00", "1000"}, f \in short \cup long}
        \cup {s \o "0." \o f : s \in {"", "-"}, f \in tiny \cup half}

\* the inputs of the calls that are made with options
OptionInputs ==
  {s \o w \o f : s \in {"", "-"},
                 w \in {"0", "7", "21", "1000", "1021", "12345", "2000000", "1000005"},
                 f \in {"", ".0", ".5", ".05"}}

Separators == {Absent, Given(" - "), Given(","), Given("")}

NegativeWords == {Absent, Given("neg"), Given("neg "), Given("")}

ZeroWords == {Absent, Given("nil"), Given("")}

Flags == {AbsentFlag, [given |-> TRUE, val |-> TRUE], [given |-> TRUE, val |-> FALSE]}

\* the options of a call: any separator with any negative word, or any zero
\* word, or the useNegativeWord flag
OptionChoices ==
  {[NoOptions EXCEPT !.customSeparator = s, !.customNegativeWord = n] :
     s \in Separators, n \in NegativeWords}
  \cup {[NoOptions EXCEPT !.customZeroWord = z] : z \in ZeroWords}
  \cup {[NoOptions EXCEPT !.useNegativeWord = u] : u \in Flags}

\* the configuration of a HarfizerConverter instance
ConfigChoices ==
  {NoOptions,
   [NoOptions EXCEPT !.customSeparator = Given(" - ")],
   [NoOptions EXCEPT !.customNegativeWord = Given("neg")],
   [NoOptions EXCEPT !.useNegativeWord = [given |-> TRUE, val |-> FALSE]]}

Init ==
  /\ plugin \in Engines
  /\ operation = "convertNumber"
  /\ calendar = Omitted
  /\ \/ /\ input \in ShortInputs \cup LongInputs \cup FractionInputs
        /\ options = NoOptions
        /\ config = NoOptions
     \/ /\ input \in OptionInputs
        /\ options \in OptionChoices
        /\ config \in (IF plugin = "harfizer" THEN ConfigChoices ELSE {NoOptions})
  /\ result = Pending
  /\ initial = [options |-> options, config |-> config]

Spec == Init /\ [][Next]_vars

(***************************************************************************)
(* The vocabulary of the properties, defined from the specification's      *)
(* words and not from the code's steps                                     *)
(***************************************************************************)
\* s without the characters of the set
RECURSIVE Without(_, _)
Without(s, chars) ==
  IF Len(s) = 0 THEN ""
  ELSE IF Len(s) = 1 THEN (IF s \in chars THEN "" ELSE s)
  ELSE Without(SubSeq(s, 1, Len(s) \div 2), chars)
         \o Without(SubSeq(s, Len(s) \div 2 + 1, Len(s)), chars)

Blank == {" ", "\t", "\n"}

\* the cleaned text: no ',', no whitespace and no '-' other than a leading one
CleanedText(in) ==
  LET t == Trim(in)
  IN  IF t # "" /\ Char(t, 1) = "-"
        THEN "-" \o Without(SubSeq(t, 2, Len(t)), Blank \cup {",", "-"})
        ELSE Without(t, Blank \cup {",", "-"})

\* an optional sign, one or more digits, optionally a dot and one or more digits
WellFormed(s) ==
  \E sign \in {0, 1}, n \in 1..Len(s) :
    /\ sign = 1 => Char(s, 1) = "-"
    /\ sign + n <= Len(s)
    /\ \A i \in (sign + 1)..(sign + n) : Char(s, i) \in Digits
    /\ \/ sign + n = Len(s)
       \/ /\ sign + n + 2 <= Len(s)
          /\ Char(s, sign + n + 1) = "."
          /\ \A i \in (sign + n + 2)..Len(s) : Char(s, i) \in Digits

Valid(in) == WellFormed(CleanedText(in))

Signed(in) == LET c == CleanedText(in) IN c # "" /\ Char(c, 1) = "-"

\* the canonical magnitude: the cleaned text without its sign
Magnitude(in) == Without(CleanedText(in), {"-"})

\* the canonical integer digits and fraction digits of a valid input
IntegerDigits(in) ==
  LET m == Magnitude(in)
      dots == {i \in 1..Len(m) : Char(m, i) = "."}
  IN  IF dots = {} THEN m ELSE SubSeq(m, 1, (CHOOSE i \in dots : TRUE) - 1)

FractionDigits(in) ==
  LET m == Magnitude(in)
      dots == {i \in 1..Len(m) : Char(m, i) = "."}
  IN  IF dots = {} THEN "" ELSE SubSeq(m, (CHOOSE i \in dots : TRUE) + 1, Len(m))

MagnitudeIsZero(in) ==
  \A i \in 1..Len(Magnitude(in)) : Char(Magnitude(in), i) \in {"0", "."}

Called == result # Pending

ZeroWordOf(p) ==
  CASE p = "persian" -> Persian_ZERO_WORD [] p = "english" -> English_ZERO_WORD
    [] p = "german" -> German_ZERO_WORD
    [] p = "french" -> French_ZERO_WORD [] p = "spanish" -> Spanish_ZERO_WORD
    [] p = "russian" -> Russian_ZERO_WORD [] p = "chinese" -> Chinese_ZERO_WORD
    [] p = "japanese" -> Japanese_ZERO_WORD [] OTHER -> Harfizer_ZERO_WORD

NegativeWordOf(p) ==
  CASE p = "persian" -> Persian_NEGATIVE_WORD [] p = "english" -> English_NEGATIVE_WORD
    [] p = "german" -> German_NEGATIVE_WORD
    [] p = "french" -> French_NEGATIVE_WORD [] p = "spanish" -> Spanish_NEGATIVE_WORD
    [] p = "russian" -> Russian_NEGATIVE_WORD [] p = "chinese" -> Chinese_NEGATIVE_WORD
    [] p = "japanese" -> Japanese_NEGATIVE_WORD [] OTHER -> Harfizer_NEGATIVE_WORD

SeparatorOf(p) ==
  CASE p = "persian" -> Persian_DEFAULT_SEPARATOR [] p = "english" -> English_DEFAULT_SEPARATOR
    [] p = "german" -> German_DEFAULT_SEPARATOR
    [] p = "french" -> French_DEFAULT_SEPARATOR [] p = "spanish" -> Spanish_DEFAULT_SEPARATOR
    [] p = "russian" -> Russian_DEFAULT_SEPARATOR [] p = "chinese" -> Chinese_DEFAULT_SEPARATOR
    [] p = "japanese" -> Japanese_DEFAULT_SEPARATOR [] OTHER -> Harfizer_DEFAULT_SEPARATOR

\* "the custom value if given, else the locale's"
Effective(option, dflt) == IF option.given THEN option.val ELSE dflt

(***************************************************************************)
(* C1                                                                      *)
(***************************************************************************)
\* C1: for every plugin and every input that passes format validation,
\* convertNumber returns the effective zero word if and only if the canonical
\* magnitude is exactly zero (all integer digits and all fraction digits 0).
C1_ZeroWordIffZeroMagnitude ==
  (plugin \in Plugins /\ Called /\ Valid(input)) =>
    ((result = Returned(Effective(options.customZeroWord, ZeroWordOf(plugin))))
       <=> MagnitudeIsZero(input))

(***************************************************************************)
(* C3                                                                      *)
(***************************************************************************)
\* C3: for every plugin, convertNumber fails with 'Error: Out of range.' for
\* every format-valid input with more than 66 integer digits (leading zeros
\* counted, whatever the value) and succeeds for every format-valid input
\* with at most 66 integer digits.
C3_OutOfRangeIffOver66Digits ==
  (plugin \in Plugins /\ Called /\ Valid(input)) =>
    IF Len(IntegerDigits(input)) > 66
      THEN result = Thrown(OutOfRange)
      ELSE result.status = "returned"

(***************************************************************************)
(* C9                                                                      *)
(***************************************************************************)
\* the input without the ',', whitespace and '-' characters that follow its
\* first character
Ungrouped(in) ==
  Char(in, 1) \o Without(SubSeq(in, 2, Len(in)), Blank \cup {",", "-"})

\* C9: for every plugin, ',', whitespace and '-' characters at any position
\* other than the first carry no meaning: the call returns or throws exactly
\* what it does for the string without them.
C9_GroupingCharactersIgnored ==
  (plugin \in Plugins /\ Called /\ input # "" /\ Char(input, 1) \in Digits \cup {"-"}) =>
    result = ConvertNumber(plugin, Ungrouped(input), options)

\* a call on digits with grouping characters among them has returned words
C9_Witness ==
  /\ plugin \in Plugins /\ result.status = "returned" /\ result.value # ""
  /\ input # "" /\ Char(input, 1) \in Digits \cup {"-"}
  /\ Ungrouped(input) # input
  /\ \E i \in 2..(Len(input) - 1) : Char(input, i) = "-"

(***************************************************************************)
(* C10                                                                     *)
(***************************************************************************)
\* C10: for every plugin, convertNumber fails with 'Error: Invalid input
\* format.' exactly for the inputs whose cleaned text is not an optional sign,
\* one or more digits and optionally a dot and one or more digits; the format
\* check comes before the zero, range and grouping steps.
C10_InvalidFormatIffMalformed ==
  (plugin \in Plugins /\ Called) =>
    /\ (result = Thrown(InvalidFormat)) <=> ~Valid(input)
    /\ result.status \in {"returned", "thrown"}

\* a malformed input with more than 66 digits has been rejected for its format
C10_Witness ==
  /\ plugin \in Plugins /\ result = Thrown(InvalidFormat)
  /\ Len(Without(input, {"a"})) > MaxIntegerDigits

(***************************************************************************)
(* C2                                                                      *)
(***************************************************************************)
\* what joins the negative word to the words after it
NegativeGlue(p, negativeWord, separator) ==
  IF p = "persian"
    THEN (IF negativeWord # "" /\ Char(negativeWord, Len(negativeWord)) = " "
            THEN "" ELSE " ")
    ELSE separator

\* C2: for every plugin and every valid input with a leading '-' and a
\* non-zero magnitude, the output is the effective negative word
\* (customNegativeWord if given, else the locale's), then one space (Persian,
\* unless the word ends with one) or the effective separator (the other
\* plugins), then exactly the output of the same call on the unsigned input.
C2_NegativeWordThenUnsignedOutput ==
  (plugin \in Plugins /\ Called /\ Valid(input) /\ Signed(input)
     /\ ~MagnitudeIsZero(input)) =>
    LET negativeWord == Effective(options.customNegativeWord, NegativeWordOf(plugin))
        separator    == Effective(options.customSeparator, SeparatorOf(plugin))
        unsigned     == ConvertNumber(plugin, Magnitude(input), options)
    IN  IF unsigned.status = "thrown" THEN result = unsigned
        ELSE result = Returned(negativeWord
                                 \o NegativeGlue(plugin, negativeWord, separator)
                                 \o unsigned.value)

(***************************************************************************)
(* C4 and C5                                                               *)
(***************************************************************************)
WidthOf(p) == IF p \in {"chinese", "japanese"} THEN 4 ELSE 3

ScaleTableOf(p) ==
  CASE p = "persian" -> Table(Persian_DEFAULT_LEXICON, 4) [] p = "english" -> English_SCALE
    [] p = "german" -> German_SCALE
    [] p = "french" -> French_SCALE [] p = "spanish" -> Spanish_SCALE
    [] p = "russian" -> Russian_SCALE [] p = "chinese" -> Chinese_SCALE
    [] p = "japanese" -> Japanese_SCALE

\* the groups of a digit string, counted from the least significant (0)
GroupCount(digits, width) == (Len(digits) + width - 1) \div width

GroupAt(digits, width, k) ==
  SubSeq(digits, Max(1, Len(digits) - width * (k + 1) + 1), Len(digits) - width * k)

NonZeroGroups(digits, width) ==
  {k \in 0..(GroupCount(digits, width) - 1) :
     \E i \in 1..Len(GroupAt(digits, width, k)) : Char(GroupAt(digits, width, k), i) # "0"}

Contains(s, sub) ==
  \E i \in 1..(Len(s) - Len(sub) + 1) : SubSeq(s, i, i + Len(sub) - 1) = sub

WholeNumber(in) == Valid(in) /\ ~Contains(in, ".") /\ Len(IntegerDigits(in)) <= MaxIntegerDigits

\* C4: for every plugin and every valid integer input of up to 66 digits,
\* each non-zero group at position k > 0 is followed in the output by a
\* defined scale word, the entry k of the plugin's scale table: the lookup is
\* within the table, the word is in the output, and the output holds no
\* 'undefined'.
C4_ScaleWordDefined ==
  (plugin \in Plugins /\ Called /\ WholeNumber(input) /\ ~options.customLexicon.given) =>
    /\ result.status = "returned"
    /\ ~Contains(result.value, "undefined")
    /\ \A k \in NonZeroGroups(IntegerDigits(input), WidthOf(plugin)) :
         k > 0 => /\ HasIndex(ScaleTableOf(plugin), k)
                  /\ At(ScaleTableOf(plugin), k) # ""
                  /\ Contains(result.value, At(ScaleTableOf(plugin), k))

\* the words of one group
GroupWords(p, group) ==
  CASE p = "persian" -> PersianConvertTripleToWords(group, Persian_DEFAULT_LEXICON)
    [] p = "english" -> EnglishConvertTripleToWords(group)
    [] p = "german" -> GermanConvertTripleToWords(group)
    [] p = "french" -> FrenchConvertTripleToWords(group)
    [] p = "spanish" -> SpanishConvertTripleToWords(group)
    [] p = "russian" -> RussianConvertTripleToWords(group)
    [] p = "chinese" -> ChineseConvertTripleToWords(group)
    [] p = "japanese" -> JapaneseConvertTripleToWords(group)

\* the scale word of position k as the locale inflects it for the group
InflectedScale(p, group, k) ==
  LET word == At(ScaleTableOf(p), k)
  IN  IF p = "french" /\ k >= 2 /\ ParseInt(group) > 1 THEN word \o "s"
      ELSE IF p = "spanish" /\ word = "millon" /\ ParseInt(group) > 1 THEN "millones"
      ELSE word

\* the token of the group at position k: its words followed by its scale word
GroupToken(p, group, k, separator) ==
  IF k = 0 THEN GroupWords(p, group)
  ELSE IF p \in {"persian", "chinese", "japanese"}
    THEN GroupWords(p, group) \o InflectedScale(p, group, k)
  ELSE IF p = "french"
    THEN (IF k = 1 /\ ParseInt(group) = 1 THEN InflectedScale(p, group, k)
          ELSE GroupWords(p, group) \o separator \o InflectedScale(p, group, k))
  ELSE GroupWords(p, group) \o " " \o InflectedScale(p, group, k)

\* the tokens of the non-zero groups at the positions up to k, most
\* significant first
RECURSIVE GroupTokens(_, _, _, _)
GroupTokens(p, digits, k, separator) ==
  IF k < 0 THEN <<>>
  ELSE LET lower == GroupTokens(p, digits, k - 1, separator)
       IN  IF k \in NonZeroGroups(digits, WidthOf(p))
             THEN <<GroupToken(p, GroupAt(digits, WidthOf(p), k), k, separator)>> \o lower
             ELSE lower

IntegerWords(p, digits, separator) ==
  Join(GroupTokens(p, digits, GroupCount(digits, WidthOf(p)) - 1, separator), separator)

\* C5: for every plugin and every non-zero integer input of at most 66
\* digits, the output is the sequence, most significant first, of the tokens
\* of exactly the non-zero groups (groups of 3 digits from the right, 4 for
\* Chinese and Japanese), each token the group's words followed by the scale
\* word of its position; a zero group contributes nothing.
C5_TokensOfNonZeroGroups ==
  (plugin \in Plugins /\ Called /\ WholeNumber(input) /\ ~Signed(input)
     /\ ~MagnitudeIsZero(input) /\ options = NoOptions) =>
    /\ \A k \in NonZeroGroups(IntegerDigits(input), WidthOf(plugin)) :
         k > 0 => HasIndex(ScaleTableOf(plugin), k)
    /\ result = Returned(IntegerWords(plugin, IntegerDigits(input), SeparatorOf(plugin)))

(***************************************************************************)
(* C6                                                                      *)
(***************************************************************************)
\* the digits of s up to its last digit that is not 0
WithoutTrailingZeros(s) ==
  IF \A i \in 1..Len(s) : Char(s, i) = "0" THEN ""
  ELSE SubSeq(s, 1, CHOOSE i \in 1..Len(s) :
                      Char(s, i) # "0" /\ \A j \in (i + 1)..Len(s) : Char(s, j) = "0")

\* the input with the trailing zeros of its fraction stripped, and with no
\* fractional clause when no fraction digit remains
FractionStripped(in) ==
  LET fraction == WithoutTrailingZeros(FractionDigits(in))
  IN  (IF Signed(in) THEN "-" ELSE "") \o IntegerDigits(in)
        \o (IF fraction = "" THEN "" ELSE "." \o fraction)

\* the stripped input with the fraction digits after the 11th replaced by "1"
FractionCut(in) ==
  LET fraction == WithoutTrailingZeros(FractionDigits(in))
  IN  (IF Signed(in) THEN "-" ELSE "") \o IntegerDigits(in) \o "."
        \o SubSeq(fraction, 1, MaxFractionDigits) \o "1"

\* C6: for every plugin, the trailing zeros of a fraction are stripped before
\* rendering, the fractional clause is omitted when no digit remains ("5.0"
\* converts as "5", "1.50" as "1.5"), and the digits after the 11th remaining
\* one are not rendered.
C6_FractionStrippedAndCut ==
  (plugin \in Plugins /\ Called /\ Valid(input) /\ FractionDigits(input) # "") =>
    /\ result = ConvertNumber(plugin, FractionStripped(input), options)
    /\ Len(WithoutTrailingZeros(FractionDigits(input))) > MaxFractionDigits
         => result = ConvertNumber(plugin, FractionCut(input), options)

(***************************************************************************)
(* C8                                                                      *)
(***************************************************************************)
\* the options in effect: the instance configuration overridden by the call's
EffectiveOptions == IF plugin = "harfizer" THEN Spread(config, options) ELSE options

NegativeWordDisabled ==
  EffectiveOptions.useNegativeWord.given /\ ~EffectiveOptions.useNegativeWord.val

\* C8: when the effective options have useNegativeWord = false, the
\* conversion of a negative valid input (by a plugin, by a HarfizerConverter
\* or by HarfizerConverter.toWords) is the string returned for the unsigned
\* input, with no negative word.
C8_NoNegativeWordWhenDisabled ==
  (Called /\ Valid(input) /\ Signed(input) /\ ~MagnitudeIsZero(input)
     /\ NegativeWordDisabled) =>
    result = Convert(plugin, Magnitude(input), config, options)

(***************************************************************************)
(* C7                                                                      *)
(***************************************************************************)
\* the number of places of s where sub occurs
CountOf(s, sub) ==
  Cardinality({i \in 1..(Len(s) - Len(sub) + 1) : SubSeq(s, i, i + Len(sub) - 1) = sub})

\* s with every occurrence of sub (not empty), from the left, replaced by by
RECURSIVE ReplaceAll(_, _, _)
ReplaceAll(s, sub, by) ==
  IF Len(s) < Len(sub) THEN s
  ELSE IF SubSeq(s, 1, Len(sub)) = sub
    THEN by \o ReplaceAll(SubSeq(s, Len(sub) + 1, Len(s)), sub, by)
  ELSE Char(s, 1) \o ReplaceAll(SubSeq(s, 2, Len(s)), sub, by)

\* the number of tokens the integer digits give: one for each non-zero
\* group, and in French one more for the scale word of a group, except for
\* the lone "mille" of a thousands group of 1
IntegerTokenCount(p, digits) ==
  LET groups == NonZeroGroups(digits, WidthOf(p))
      apart  == {k \in groups :
                   /\ p = "french" /\ k > 0
                   /\ ~(k = 1 /\ ParseInt(GroupAt(digits, WidthOf(p), k)) = 1)}
  IN  Cardinality(groups) + Cardinality(apart)

\* the number of joints between adjacent group tokens
GroupJoints(p, in) == Max(IntegerTokenCount(p, IntegerDigits(in)) - 1, 0)

\* the number of joints between the tokens of the whole output: in Persian
\* those between the group tokens; in the other plugins also the one after the
\* negative word, the two around the decimal word and those between the
\* fraction digits
TokenJoints(p, in) ==
  LET tokens   == IntegerTokenCount(p, IntegerDigits(in))
      fraction == FractionDigits(in)
  IN  IF p = "persian" THEN (IF MagnitudeIsZero(in) THEN 0 ELSE GroupJoints(p, in))
      ELSE IF Magnitude(in) \in {"0", "0.0"} THEN 0
      ELSE GroupJoints(p, in)
             + (IF fraction # "" THEN 1 + Len(fraction) ELSE 0)
             + (IF Signed(in) /\ ~(p = "spanish" /\ tokens = 0 /\ fraction = "")
                  THEN 1 ELSE 0)

\* a valid input has been converted with a customSeparator in the options
CustomSeparatorCall ==
  /\ plugin \in Plugins /\ Valid(input) /\ result.status = "returned"
  /\ options.customSeparator.given

DefaultSeparatorOutput ==
  ConvertNumber(plugin, input, [options EXCEPT !.customSeparator = Absent])

\* the group tokens of the integer part, with their words as the default
\* separator writes them
DefaultGroupTokens(p, in) ==
  GroupTokens(p, IntegerDigits(in), GroupCount(IntegerDigits(in), WidthOf(p)) - 1,
              SeparatorOf(p))

\* out is dflt with the tokens, joined by the default separator d in dflt,
\* joined by s instead, and nothing else changed
JoinedBy(out, dflt, tokens, d, s) ==
  LET joined == Join(tokens, d)
  IN  \E i \in 0..(Len(dflt) - Len(joined)) :
        /\ SubSeq(dflt, i + 1, i + Len(joined)) = joined
        /\ out = SubSeq(dflt, 1, i) \o Join(tokens, s)
                   \o SubSeq(dflt, i + Len(joined) + 1, Len(dflt))

SeparatorInEffect(p, s) == IF p # "persian" /\ s = "" THEN SeparatorOf(p) ELSE s

ConvertTripleToWords(p, num, lexicon, separator) ==
  LET localLexicon == Coalesce(lexicon, Persian_DEFAULT_LEXICON)
      typeError    == TypeErrorOf(LexiconReads(num), localLexicon)
  IN  CASE p = "persian"  ->
             IF typeError # "" THEN Thrown(typeError)
             ELSE Returned(PersianConvertTripleToWords(num, localLexicon))
        [] p = "english"  -> Returned(EnglishConvertTripleToWords(num))
        [] p = "german"   -> Returned(GermanConvertTripleToWords(num))
        [] p = "french"   -> Returned(FrenchConvertTripleToWords(num))
        [] p = "spanish"  -> Returned(SpanishConvertTripleToWords(num))
        [] p = "russian"  -> Returned(RussianConvertTripleToWords(num))
        [] p = "chinese"  -> Returned(ChineseConvertTripleToWords(num))
        [] p = "japanese" -> Returned(JapaneseConvertTripleToWords(num))

\* plugin.convertTripleToWords(num, lexicon, separator); the lexicon and the
\* separator argument are the customLexicon and the customSeparator field of
\* the state's options
ConvertTripleToWordsCall ==
  /\ plugin \in Plugins /\ operation = "convertTripleToWords" /\ result = Pending
  /\ result' = ConvertTripleToWords(plugin, input, options.customLexicon,
                                    options.customSeparator)
  /\ UNCHANGED call

\* HarfizerConverter.convertTripleToWords as a call: the words, or the
\* TypeError of the first read from a table the lexicon does not have.
HarfizerConvertTripleToWordsResult(num, lexicon) ==
  LET localLexicon == Coalesce(lexicon, Harfizer_DEFAULT_LEXICON)
      typeError    == TypeErrorOf(LexiconReads(num), localLexicon)
  IN  IF typeError # "" THEN Thrown(typeError)
      ELSE Returned(HarfizerConvertTripleToWords(num, localLexicon))

HarfizerConvertTripleToWordsCall ==
  /\ plugin = "harfizer" /\ operation = "convertTripleToWords" /\ result = Pending
  /\ result' = HarfizerConvertTripleToWordsResult(input, options.customLexicon)
  /\ UNCHANGED call

\* the digits of a group: three for the plugins that group by thousands, four
\* for the Chinese and the Japanese one
GroupDigits(p) == IF p \in {"chinese", "japanese"} THEN 4 ELSE 3

\* every group a number can be split into, with and without leading zeros
GroupInputs(p) == StringsUpTo(Digits, GroupDigits(p)) \ {""}

TripleInit ==
  /\ plugin \in Plugins
  /\ operation = "convertTripleToWords"
  /\ input \in GroupInputs(plugin)
  /\ options = NoOptions
  /\ config = NoOptions
  /\ calendar = Omitted
  /\ result = Pending
  /\ initial = [options |-> options, config |-> config]

TripleSpec == TripleInit /\ [][ConvertTripleToWordsCall]_vars

\* C11: in every plugin, with the default lexicon, the conversion of a digit
\* group returns the empty string for the value 0 and a non-empty string of
\* words for every value v with 0 < v < groupModulus (1000, or 10000 for the
\* Chinese and the Japanese plugin).
C11_GroupWordsEmptyOnlyForZero ==
  (operation = "convertTripleToWords" /\ options = NoOptions /\ result # Pending)
    => /\ result.status = "returned"
       /\ (result.value = "") <=> (Without(input, {"0"}) = "")
       /\ ~Contains(result.value, "undefined")

C11_Witness ==
  /\ operation = "convertTripleToWords"
  /\ plugin = "russian" /\ input = "012"
  /\ result.status = "returned" /\ result.value # ""

(***************************************************************************)
(* Calls with a custom lexicon                                             *)
(***************************************************************************)
\* a complete lexicon of the caller's: five tables as long as the default ones
CustomLexicon ==
  << <<"", "one", "two", "three", "four", "five", "six", "seven", "eight", "nine">>,
     <<"ten", "eleven", "twelve", "thirteen", "fourteen", "fifteen", "sixteen",
       "seventeen", "eighteen", "nineteen", "twenty">>,
     <<"", "", "twenty", "thirty", "forty", "fifty", "sixty", "seventy", "eighty",
       "ninety">>,
     <<"", "onehundred", "twohundred", "threehundred", "fourhundred", "fivehundred",
       "sixhundred", "sevenhundred", "eighthundred", "ninehundred">>,
     <<"", " thousand", " million", " billion", " trillion", " quadrillion",
       " quintillion", " sextillion", " septillion", " octillion", " nonillion",
       " decillion", " undecillion", " duodecillion", " tredecillion",
       " quattuordecillion", " quindecillion", " sexdecillion", " septendecillion",
       " octodecillion", " novemdecillion", " vigintillion">> >>

\* the lexicons a caller passes: none, a complete one, one without the scale
\* table, one with the units table only, an empty one, and one whose units
\* and scale tables stop short
LexiconChoices ==
  {AbsentTable,
   [given |-> TRUE, val |-> CustomLexicon],
   [given |-> TRUE, val |-> SubSeq(CustomLexicon, 1, 4)],
   [given |-> TRUE, val |-> SubSeq(CustomLexicon, 1, 1)],
   [given |-> TRUE, val |-> <<>>],
   [given |-> TRUE, val |-> [CustomLexicon EXCEPT ![1] = SubSeq(@, 1, 6),
                                                 ![5] = SubSeq(@, 1, 1)]]}

LexiconInputs ==
  {s \o w \o f : s \in {"", "-"},
                 w \in {"0", "5", "7", "15", "20", "21", "30", "100", "107", "115",
                        "121", "130", "1000", "7000", "21000", "1000007"},
                 f \in {"", ".5", ".07"}}

\* the engines that read customLexicon
LexiconEngines == {"persian", "harfizer", "harfizerStatic"}

LexiconInit ==
  /\ \/ /\ plugin \in LexiconEngines
        /\ operation = "convertNumber"
        /\ input \in LexiconInputs
     \/ /\ plugin = "persian"
        /\ operation = "convertTripleToWords"
        /\ input \in GroupInputs(plugin)
  /\ options \in {[NoOptions EXCEPT !.customLexicon = l] : l \in LexiconChoices}
  /\ config = NoOptions
  /\ calendar = Omitted
  /\ result = Pending
  /\ initial = [options |-> options, config |-> config]

LexiconNext ==
  \/ PersianCall
  \/ HarfizerConvertCall
  \/ HarfizerToWordsCall
  \/ ConvertTripleToWordsCall

LexiconSpec == LexiconInit /\ [][LexiconNext]_vars

\* the lexicon that the caller's stands for: every table and every entry that
\* the caller's lexicon does not supply is the default one
Completed(lexicon, default) ==
  [t \in 1..Len(default) |->
     [k \in 1..Len(default[t]) |->
        IF t <= Len(lexicon) /\ k <= Len(lexicon[t]) THEN lexicon[t][k]
        ELSE default[t][k]]]

DefaultLexiconOf(e) ==
  IF e = "persian" THEN Persian_DEFAULT_LEXICON ELSE Harfizer_DEFAULT_LEXICON

\* the call of the state, made with the completed lexicon
CompletedLexiconCall ==
  LET completed == [options EXCEPT !.customLexicon =
                      [given |-> TRUE,
                       val   |-> Completed(options.customLexicon.val,
                                           DefaultLexiconOf(plugin))]]
  IN  IF operation = "convertTripleToWords"
        THEN ConvertTripleToWords(plugin, input, completed.customLexicon,
                                  completed.customSeparator)
        ELSE Convert(plugin, input, config, completed)

\* C12: when customLexicon supplies only some of the five word tables, or
\* leaves entries of a table out, convertNumber and convertTripleToWords use
\* the default table or entry for every part that is not supplied: the call
\* returns what it returns with the completed lexicon, it does not fail, and
\* no missing row shows as an empty or "undefined" word.
C12_PartialLexiconFallsBack ==
  (options.customLexicon.given /\ result # Pending)
    => result = CompletedLexiconCall

(***************************************************************************)
(* HarfizerConverter: options of the call over the instance configuration  *)
(***************************************************************************)
\* a second lexicon, for the instance configuration
ConfigLexicon ==
  [CustomLexicon EXCEPT
     ![1] = <<"", "uno", "dos", "tres", "cuatro", "cinco", "seis", "siete", "ocho",
              "nueve">>]

CallSuffixes == <<"", "tenth", "hundredth", "thousandth", "tenthousandth">>

ConfigSuffixes == <<"", "per10", "per100", "per1000", "per10000">>

\* every field left out or given, at the call site
CallOptionChoices ==
  {[NoOptions EXCEPT !.customSeparator       = s,
                     !.customLexicon         = l,
                     !.customDecimalSuffixes = d,
                     !.customNegativeWord    = n,
                     !.customZeroWord        = z] :
     s \in {Absent, Given(" - ")},
     l \in {AbsentTable, [given |-> TRUE, val |-> CustomLexicon]},
     d \in {AbsentTable, [given |-> TRUE, val |-> CallSuffixes]},
     n \in {Absent, Given("neg")},
     z \in {Absent, Given("nil")}}

\* every field left out or given, in the configuration of the instance
InstanceConfigChoices ==
  {[NoOptions EXCEPT !.customSeparator       = s,
                     !.customLexicon         = l,
                     !.customDecimalSuffixes = d,
                     !.customNegativeWord    = n,
                     !.customZeroWord        = z] :
     s \in {Absent, Given(", ")},
     l \in {AbsentTable, [given |-> TRUE, val |-> ConfigLexicon]},
     d \in {AbsentTable, [given |-> TRUE, val |-> ConfigSuffixes]},
     n \in {Absent, Given("minus ")},
     z \in {Absent, Given("nought")}}

MergeInputs ==
  {s \o w \o f : s \in {"", "-"}, w \in {"0", "7", "1021"},
                 f \in {"", ".5", ".07", ".1234"}}

MergeInit ==
  /\ plugin \in {"harfizer", "harfizerStatic"}
  /\ operation = "convertNumber"
  /\ input \in MergeInputs
  /\ options \in CallOptionChoices
  /\ config \in (IF plugin = "harfizer" THEN InstanceConfigChoices ELSE {NoOptions})
  /\ calendar = Omitted
  /\ result = Pending
  /\ initial = [options |-> options, config |-> config]

MergeNext ==
  \/ HarfizerConvertCall
  \/ HarfizerToWordsCall

MergeSpec == MergeInit /\ [][MergeNext]_vars

\* the value of every option for the call of the state: the call-site value
\* if given, else the value of the instance configuration if given, else
\* left to the built-in default
Resolved ==
  [f \in DOMAIN NoOptions |->
     IF options[f].given THEN options[f]
     ELSE IF config[f].given THEN config[f]
     ELSE NoOptions[f]]

\* C13: in HarfizerConverter every option is resolved once per call (call-site
\* value, else instance configuration, else built-in default) and the resolved
\* values are used for every part of the output, the numerals of the
\* fractional part included: the call returns what a converter configured
\* with the resolved values alone returns.
C13_ResolvedOptionsUsedThroughout ==
  (plugin \in {"harfizer", "harfizerStatic"} /\ operation = "convertNumber"
     /\ result # Pending)
    => result = HarfizerConvert(input, Resolved, NoOptions)

(***************************************************************************)
(* C14                                                                     *)
(***************************************************************************)
PersianEngines == {"persian", "harfizer", "harfizerStatic"}

\* the fraction digits that are rendered: without trailing zeros, 11 at most
RenderedFraction(in) ==
  LET fraction == WithoutTrailingZeros(FractionDigits(in))
  IN  IF Len(fraction) > MaxFractionDigits THEN SubSeq(fraction, 1, MaxFractionDigits)
      ELSE fraction

\* C14: in the Persian engine an input whose integer part is zero and whose
\* fraction is not converts to the numeral words of the fraction followed by
\* the decimal suffix for its length, after the negative word if the input
\* is negative, with no decimal-introductory word and no leading space
\* ("0.75" gives "haftad o panj sadom", "-0.01" gives "manfi yek sadom").
C14_ZeroIntegerPartLeavesFractionOnly ==
  (plugin \in PersianEngines /\ options = NoOptions /\ config = NoOptions
     /\ Called /\ Valid(input)
     /\ Without(IntegerDigits(input), {"0"}) = ""
     /\ Len(IntegerDigits(input)) <= MaxIntegerDigits
     /\ RenderedFraction(input) # "")
    => result = Returned(
         (IF Signed(input) THEN Persian_NEGATIVE_WORD ELSE "")
           \o IntegerWords("persian", RenderedFraction(input),
                           Persian_DEFAULT_SEPARATOR)
           \o " "
           \o At(Persian_DEFAULT_DECIMAL_SUFFIXES, Len(RenderedFraction(input))))

(***************************************************************************)
(* Dates                                                                   *)
(*                                                                         *)
(* Transliteration of the words of the templates: goda = года,             *)
(* Nian Yue Ri = 年 月 日 (Chinese), Nen Gatsu Nichi = 年 月 日 (Japanese), *)
(* premier = premier; the month names are transliterated as the numerals. *)
(* Years are below 2^53, where parseInt is exact.                          *)
(***************************************************************************)
Persian_InvalidDateFormat ==
  "Invalid date format. Expected format 'YYYY/MM/DD' or 'YYYY-MM-DD'."

InvalidDateFormat == "Invalid date format. Expected 'YYYY/MM/DD' or 'YYYY-MM-DD'."

InvalidMonth == "Invalid month in date."

DateError_NoUpperBound(dateStr, formatMessage) ==
  LET parts    == SplitOn(dateStr, {"-", "/"})
      monthNum == ParseIntPrefix(parts[2])
  IN  IF Len(parts) # 3 THEN formatMessage
      ELSE IF IsNaN(monthNum) \/ monthNum.value < 1 THEN InvalidMonth
      ELSE ""

\* the checks that every convertDateToWords begins with: the message of the
\* error thrown, or "" when the date has three parts and a month in 1..12
DateError(dateStr, formatMessage) ==
  LET parts    == SplitOn(dateStr, {"-", "/"})
      monthNum == ParseIntPrefix(parts[2])
  IN  IF Len(parts) # 3 THEN formatMessage
      ELSE IF IsNaN(monthNum) \/ monthNum.value < 1 \/ monthNum.value > 12
        THEN InvalidMonth
      ELSE ""

\* const [yearStr, monthStr, dayStr] = parts
YearStr(dateStr) == SplitOn(dateStr, {"-", "/"})[1]

MonthStr(dateStr) == SplitOn(dateStr, {"-", "/"})[2]

DayStr(dateStr) == SplitOn(dateStr, {"-", "/"})[3]

\* of conversions evaluated in this order, the first that throws; Pending
\* when none does
FirstThrown(results) ==
  LET thrown == {k \in 1..Len(results) : results[k].status = "thrown"}
  IN  IF thrown = {} THEN Pending
      ELSE results[CHOOSE k \in thrown : \A j \in thrown : k <= j]

\* a template literal: the texts with the converted words between them, or
\* the error of the check, or that of the first conversion that throws
Template(error, results, texts) ==
  IF error # "" THEN Thrown(error)
  ELSE IF FirstThrown(results) # Pending THEN FirstThrown(results)
  ELSE Returned(Join([k \in 1..((2 * Len(results)) + 1) |->
                       IF k % 2 = 1 THEN texts[(k + 1) \div 2]
                       ELSE results[k \div 2].value], ""))

Persian_jalaliMonths ==
  <<"farvardin", "ordibehesht", "khordad", "tir", "mordad", "shahrivar", "mehr",
    "aban", "azar", "dey", "bahman", "esfand">>

Persian_gregorianMonths ==
  <<"zhanvieh", "fevrieh", "mars", "avril", "meh", "zhuan", "zhuieh", "ut",
    "septambr", "oktobr", "novambr", "desambr">>

Persian_monthName_JalaliOnly(cal, monthNum) == At(Persian_jalaliMonths, monthNum - 1)

\* the month name, from the table the calendar selects; the parameter defaults
\* to "jalali" when the argument is omitted
Persian_monthName(cal, monthNum) ==
  LET effective == IF cal = Omitted THEN "jalali" ELSE cal
  IN  IF effective = "gregorian" THEN At(Persian_gregorianMonths, monthNum - 1)
      ELSE At(Persian_jalaliMonths, monthNum - 1)

PersianConvertDateToWords(dateStr, cal) ==
  LET error     == DateError(dateStr, Persian_InvalidDateFormat)
      monthNum  == ParseIntPrefix(MonthStr(dateStr)).value
      monthName == Persian_monthName(cal, monthNum)
  IN  Template(error, <<
               PersianConvertNumber(DayStr(dateStr), NoOptions),
               PersianConvertNumber(YearStr(dateStr), NoOptions)>>, <<"", " " \o monthName \o " ", "">>)

\* HarfizerConverter.convertDateToWords: the same, the numbers converted by
\* this.convert, under the configuration of the instance
HarfizerConvertDateToWords(dateStr, cal, cfg) ==
  LET error     == DateError(dateStr, Persian_InvalidDateFormat)
      monthNum  == ParseIntPrefix(MonthStr(dateStr)).value
      monthName == Persian_monthName(cal, monthNum)
  IN  Template(error, <<
               HarfizerConvert(DayStr(dateStr), cfg, NoOptions),
               HarfizerConvert(YearStr(dateStr), cfg, NoOptions)>>, <<"", " " \o monthName \o " ", "">>)

English_monthNames ==
  <<"January", "February", "March", "April", "May", "June", "July", "August",
    "September", "October", "November", "December">>

\* the day is printed as the number parseInt reads, the year in words
EnglishConvertDateToWords(dateStr) ==
  LET error     == DateError(dateStr, InvalidDateFormat)
      monthNum  == ParseIntPrefix(MonthStr(dateStr)).value
      monthName == At(English_monthNames, monthNum - 1)
      dayNum    == ParseIntPrefix(DayStr(dateStr))
  IN  Template(error, <<
               EnglishConvertNumber(YearStr(dateStr), NoOptions)>>,
               <<monthName \o " " \o NumberText(dayNum) \o ", ", "">>)

German_monthNames ==
  <<"January", "February", "March", "April", "May", "June", "July", "August",
    "September", "October", "November", "December">>

\* the month names are the English ones, the day is printed as the number
\* parseInt reads, the year in German words
GermanConvertDateToWords(dateStr) ==
  LET error     == DateError(dateStr, InvalidDateFormat)
      monthNum  == ParseIntPrefix(MonthStr(dateStr)).value
      monthName == At(German_monthNames, monthNum - 1)
      dayNum    == ParseIntPrefix(DayStr(dateStr))
  IN  Template(error, <<
               GermanConvertNumber(YearStr(dateStr), NoOptions)>>,
               <<monthName \o " " \o NumberText(dayNum) \o ", ", "">>)

French_frenchMonths ==
  <<"janvier", "fevrier", "mars", "avril", "mai", "juin", "juillet", "aout",
    "septembre", "octobre", "novembre", "decembre">>

French_FIRST == "premier"

FrenchConvertDateToWords(dateStr) ==
  LET error     == DateError(dateStr, InvalidDateFormat)
      monthNum  == ParseIntPrefix(MonthStr(dateStr)).value
      monthName == At(French_frenchMonths, monthNum - 1)
      dayNum    == ParseIntPrefix(DayStr(dateStr))
  IN  Template(error, <<
               (IF dayNum = Number(1) THEN Returned(French_FIRST) ELSE FrenchConvertNumber(NumberText(dayNum), NoOptions)),
               FrenchConvertNumber(YearStr(dateStr), NoOptions)>>, <<"", " " \o monthName \o " ", "">>)

Spanish_monthNames ==
  <<"enero", "febrero", "marzo", "abril", "mayo", "junio", "julio", "agosto",
    "septiembre", "octubre", "noviembre", "diciembre">>

SpanishConvertDateToWords(dateStr) ==
  LET error     == DateError(dateStr, InvalidDateFormat)
      monthNum  == ParseIntPrefix(MonthStr(dateStr)).value
      monthName == At(Spanish_monthNames, monthNum - 1)
  IN  Template(error, <<
               SpanishConvertNumber(DayStr(dateStr), NoOptions),
               SpanishConvertNumber(YearStr(dateStr), NoOptions)>>,
               <<"", " de " \o monthName \o " de ", "">>)

Russian_months ==
  <<"yanvarya", "fevralya", "marta", "aprelya", "maya", "iyunya", "iyulya",
    "avgusta", "sentyabrya", "oktyabrya", "noyabrya", "dekabrya">>

\* convertYear(year): the thousands in the feminine, then the remainder; a
\* year below 1000, and NaN, which no comparison holds of, go to convertNumber
RussianConvertYear(year) ==
  LET thousands == year.value \div 1000
      remainder == year.value % 1000
      form      == IF (thousands % 10) \in {2, 3, 4} /\ (thousands % 100) \notin {12, 13, 14}
                     THEN "tysyachi" ELSE "tysyach"
  IN  IF IsNaN(year) \/ year.value < 1000
        THEN RussianConvertNumber(NumberText(year), NoOptions)
      ELSE Template("", <<
               (IF thousands = 1 THEN Returned("odna tysyacha") ELSE IF thousands = 2 THEN Returned("dve tysyachi") ELSE RussianConvertNumber(NumberToString(thousands), NoOptions)),
               (IF remainder > 0 THEN RussianConvertNumber(NumberToString(remainder), NoOptions) ELSE Returned(""))>>,
                    <<"", (IF thousands > 2 THEN " " \o form ELSE "")
                            \o (IF remainder > 0 THEN " " ELSE ""), "">>)

RussianConvertDateToWords(dateStr) ==
  LET error     == DateError(dateStr, InvalidDateFormat)
      monthNum  == ParseIntPrefix(MonthStr(dateStr)).value
      monthName == At(Russian_months, monthNum - 1)
  IN  Template(error, <<
               RussianConvertNumber(DayStr(dateStr), NoOptions),
               RussianConvertYear(ParseIntPrefix(YearStr(dateStr)))>>,
               <<"", " " \o monthName \o " ", " goda">>)

\* year, month and day all through convertNumber, in this order
ChineseConvertDateToWords(dateStr) ==
  LET error == DateError(dateStr, InvalidDateFormat)
  IN  Template(error, <<
               ChineseConvertNumber(YearStr(dateStr), NoOptions),
               ChineseConvertNumber(MonthStr(dateStr), NoOptions),
               ChineseConvertNumber(DayStr(dateStr), NoOptions)>>,
               <<"", "Nian", "Yue", "Ri">>)

JapaneseConvertDateToWords(dateStr) ==
  LET error == DateError(dateStr, InvalidDateFormat)
  IN  Template(error, <<
               JapaneseConvertNumber(YearStr(dateStr), NoOptions),
               JapaneseConvertNumber(MonthStr(dateStr), NoOptions),
               JapaneseConvertNumber(DayStr(dateStr), NoOptions)>>,
               <<"", "Nen", "Gatsu", "Nichi">>)

\* plugin.convertDateToWords(dateStr, calendar): only the Persian plugin
\* reads the calendar
ConvertDateToWords(p, dateStr, cal) ==
  CASE p = "persian"  -> PersianConvertDateToWords(dateStr, cal)
    [] p = "english"  -> EnglishConvertDateToWords(dateStr)
    [] p = "german"   -> GermanConvertDateToWords(dateStr)
    [] p = "french"   -> FrenchConvertDateToWords(dateStr)
    [] p = "spanish"  -> SpanishConvertDateToWords(dateStr)
    [] p = "russian"  -> RussianConvertDateToWords(dateStr)
    [] p = "chinese"  -> ChineseConvertDateToWords(dateStr)
    [] p = "japanese" -> JapaneseConvertDateToWords(dateStr)

\* CoreConverter.convertDateToWords(dateStr, calendar)
ConvertDateToWordsCall ==
  /\ plugin \in Plugins /\ operation = "convertDateToWords" /\ result = Pending
  /\ result' = ConvertDateToWords(plugin, input, calendar)
  /\ UNCHANGED call

HarfizerConvertDateToWordsCall ==
  /\ plugin = "harfizer" /\ operation = "convertDateToWords" /\ result = Pending
  /\ result' = HarfizerConvertDateToWords(input, calendar, config)
  /\ UNCHANGED call

\* the texts of a date's parts: numbers as they are written in dates, with and
\* without leading zeros, and texts that are no numbers or only begin as one
YearTexts == {"2023", "1404", "999", "21000", "0", "", "x", "19a"}

MonthTexts == {"00", "01", "1", "04", "4", "12", "012", "13", "", "x", "4a", " 4"}

DayTexts == {"1", "01", "05", "24", "31", "0", "", "5x"}

\* dates of three parts, under either separator and both, and texts that
\* split into fewer or more parts
DateInputs ==
  {y \o a \o m \o b \o d : y \in YearTexts, m \in MonthTexts, d \in DayTexts,
                           a \in {"/", "-"}, b \in {"/", "-"}}
  \cup {"", "2023", "2023/04", "2023-04", "2023/04/05/06", "2023-04-05-06",
        "2023/04/-5", "2023.04.05", "/", "//", "--"}

Calendars == {Omitted, "jalali", "gregorian"}

DateInit ==
  /\ plugin \in Plugins \cup {"harfizer"}
  /\ operation = "convertDateToWords"
  /\ input \in DateInputs
  /\ options = NoOptions
  /\ config = NoOptions
  /\ calendar \in Calendars
  /\ result = Pending
  /\ initial = [options |-> options, config |-> config]

DateNext ==
  \/ ConvertDateToWordsCall
  \/ HarfizerConvertDateToWordsCall

DateSpec == DateInit /\ [][DateNext]_vars

(***************************************************************************)
(* C15: what a date of three parts with a valid month is converted to      *)
(***************************************************************************)
\* the date has three parts and its month reads as a number in 1..12
ValidDate(dateStr) == DateError(dateStr, InvalidDateFormat) = ""

\* convertNumber of the engine of the call, for a part of the input
Words(text) == Convert(plugin, text, config, NoOptions)

\* the sentence of each locale, of a day, a month and a year
DateTemplate(p, day, month, year) ==
  CASE p \in {"persian", "harfizer", "french"} -> day \o " " \o month \o " " \o year
    [] p = "spanish"  -> day \o " de " \o month \o " de " \o year
    [] p \in {"english", "german"} -> month \o " " \o day \o ", " \o year
    [] p = "russian"  -> day \o " " \o month \o " " \o year \o " goda"
    [] p = "chinese"  -> year \o "Nian" \o month \o "Yue" \o day \o "Ri"
    [] p = "japanese" -> year \o "Nen" \o month \o "Gatsu" \o day \o "Nichi"

\* the twelve month names of a locale under a calendar; the Chinese and the
\* Japanese plugin hold no table, their months are named by their number
MonthNames(p, cal) ==
  CASE p \in {"persian", "harfizer"} ->
         IF cal = "gregorian" THEN Persian_gregorianMonths ELSE Persian_jalaliMonths
    [] p = "english" -> English_monthNames
    [] p = "german"  -> German_monthNames
    [] p = "french"  -> French_frenchMonths
    [] p = "spanish" -> Spanish_monthNames
    [] p = "russian" -> Russian_months
    [] p \in {"chinese", "japanese"} ->
         [k \in 1..12 |-> ConvertNumber(p, NumberToString(k), NoOptions).value]

MonthOf(dateStr) == ParseIntPrefix(MonthStr(dateStr)).value

\* C15 as stated: for every date of three parts with a valid month whose day
\* and year convertNumber accepts, the result is the locale's sentence of
\* convertNumber(day), the month name at index month - 1 of the table of the
\* calendar, and convertNumber(year); a day of value 1 may be an ordinal word.
C15_DateFilledWithConvertNumber ==
  LET dayWords  == Words(DayStr(input))
      yearWords == Words(YearStr(input))
      monthName == MonthNames(plugin, calendar)[MonthOf(input)]
  IN  (/\ operation = "convertDateToWords" /\ result # Pending
       /\ ValidDate(input)
       /\ dayWords.status = "returned" /\ yearWords.status = "returned")
      => \/ result = Returned(DateTemplate(plugin, dayWords.value, monthName,
                                           yearWords.value))
         \/ /\ ParseIntPrefix(DayStr(input)) = Number(1)
            /\ result = Returned(DateTemplate(plugin, French_FIRST, monthName,
                                              yearWords.value))

\* the day as each locale writes it: the English and the German plugin print
\* the number that the day begins with, the French plugin converts that
\* number and says the ordinal for 1, the others convert the text of the day
DayPart(p, dayStr) ==
  CASE p \in {"english", "german"} -> Returned(NumberText(ParseIntPrefix(dayStr)))
    [] p = "french"  -> IF ParseIntPrefix(dayStr) = Number(1) THEN Returned(French_FIRST)
                        ELSE ConvertNumber(p, NumberText(ParseIntPrefix(dayStr)), NoOptions)
    [] OTHER         -> Words(dayStr)

\* the month: a name of the table, in Chinese and Japanese the converted text
MonthPart(p, dateStr, cal) ==
  IF p \in {"chinese", "japanese"} THEN Words(MonthStr(dateStr))
  ELSE Returned(MonthNames(p, cal)[MonthOf(dateStr)])

\* the year: in Russian a count of thousands in the feminine and the rest
YearPart(p, yearStr) ==
  IF p = "russian" THEN RussianConvertYear(ParseIntPrefix(yearStr))
  ELSE Words(yearStr)

\* C15, amended: for every date of three parts with a valid month the result
\* is the locale's sentence of its day, month and year parts when each of
\* them can be converted, and the error of one of them otherwise. The parts
\* are convertNumber(day), the month name and convertNumber(year), except
\* that English and German print the day in digits (German with the English
\* month names of its table), French converts the number the day begins with
\* (1 as "premier"), Russian says the year by convertYear, and Chinese and
\* Japanese convert the month instead of naming it.
C15_DateFilledPerLocale ==
  LET parts == <<DayPart(plugin, DayStr(input)), MonthPart(plugin, input, calendar),
                 YearPart(plugin, YearStr(input))>>
  IN  (operation = "convertDateToWords" /\ result # Pending /\ ValidDate(input))
      => IF \A k \in 1..3 : parts[k].status = "returned"
           THEN result = Returned(DateTemplate(plugin, parts[1].value,
                                               parts[2].value, parts[3].value))
           ELSE /\ result.status = "thrown"
                /\ \E k \in 1..3 : result = parts[k]

\* a Russian date of this century, and a Persian one under each calendar
C15_Witness ==
  \/ /\ plugin = "russian" /\ input = "2023/04/05"
     /\ result = Returned("pyat aprelya dve tysyachi dvadtsat tri goda")
  \/ /\ plugin = "persian" /\ input = "2023-04-05" /\ calendar = "gregorian"
     /\ result = Returned("panj avril do hezar o bist o se")

(***************************************************************************)
(* C16: the two checks of a date                                           *)
(***************************************************************************)
\* the invalid-date-format error of each engine
DateFormatError(p) ==
  IF p \in {"persian", "harfizer"} THEN Thrown(Persian_InvalidDateFormat)
  ELSE Thrown(InvalidDateFormat)

\* the text parses, as parseInt parses, to an integer in 1..12
ParsesToMonth(text) ==
  \E n \in 1..12 : ParseIntPrefix(text) = Number(n)

\* C16: a date conversion fails with the invalid-date-format error exactly
\* when the input split on "/" or "-" has not three parts; with three parts
\* it fails with "Invalid month in date." exactly when the month does not
\* parse to an integer in 1..12, whatever the day and the year are; and a
\* call ends either in an error or in a result, never in both.
C16_DateChecksBeforeConversion ==
  LET parts == SplitOn(input, {"/", "-"})
  IN  (operation = "convertDateToWords" /\ result # Pending)
      => /\ (result = DateFormatError(plugin)) <=> (Len(parts) # 3)
         /\ Len(parts) = 3
              => ((result = Thrown(InvalidMonth)) <=> ~ParsesToMonth(parts[2]))
         /\ result.status \in {"returned", "thrown"}
         /\ result.status = "thrown"
              => result.value \in {Persian_InvalidDateFormat, InvalidDateFormat,
                                   InvalidMonth, InvalidFormat, OutOfRange}

\* a month out of range is reported although the day cannot be converted
C16_Witness ==
  /\ plugin = "spanish" /\ input = "2023/13/5x"
  /\ result = Thrown(InvalidMonth)

(***************************************************************************)
(* Times                                                                   *)
(*                                                                         *)
(* Transliteration: saat = ساعت, daghigheh = دقیقه, zaman = زمان,          *)
(* chas chasa chasov = час часа часов, minuta minuty minut = минута минуты *)
(* минут, Shii Fen = 时 分 (Chinese), Ji Fun = 時 分 (Japanese).            *)
(***************************************************************************)
InvalidTimeFormat == "Invalid time format. Expected format 'HH:mm'."

InvalidTimeNumbers == "Invalid time format. Hours and minutes should be numbers."

InvalidHour == "Invalid hour value. Hour should be between 0 and 23."

InvalidMinute == "Invalid minute value. Minute should be between 0 and 59."

TimeError_MinuteFirst(timeStr) ==
  LET parts  == SplitOn(timeStr, {":"})
      hour   == ParseIntPrefix(parts[1])
      minute == ParseIntPrefix(parts[2])
  IN  IF Len(parts) # 2 THEN InvalidTimeFormat
      ELSE IF IsNaN(hour) \/ IsNaN(minute) THEN InvalidTimeNumbers
      ELSE IF minute.value < 0 \/ minute.value > 59 THEN InvalidMinute
      ELSE IF hour.value < 0 \/ hour.value > 23 THEN InvalidHour
      ELSE ""

\* the checks that every convertTimeToWords begins with: the message of the
\* error thrown, or "" when the time passes them
TimeError(timeStr) ==
  LET parts  == SplitOn(timeStr, {":"})
      hour   == ParseIntPrefix(parts[1])
      minute == ParseIntPrefix(parts[2])
  IN  IF Len(parts) # 2 THEN InvalidTimeFormat
      ELSE IF IsNaN(hour) \/ IsNaN(minute) THEN InvalidTimeNumbers
      ELSE IF hour.value < 0 \/ hour.value > 23 THEN InvalidHour
      ELSE IF minute.value < 0 \/ minute.value > 59 THEN InvalidMinute
      ELSE ""

\* const hour = parseInt(hourStr, 10); const minute = parseInt(minuteStr, 10)
HourOf(timeStr) == ParseIntPrefix(SplitOn(timeStr, {":"})[1]).value

MinuteOf(timeStr) == ParseIntPrefix(SplitOn(timeStr, {":"})[2]).value

Unsaid_Said(unsaid, words) == words

\* a conversion that is made but whose words the sentence does not use
Unsaid(unsaid, words) ==
  IF unsaid /\ words.status = "returned" THEN Returned("") ELSE words

Persian_TIME_PREFIX == "saat"

\* (this as any).config of a PersianLanguagePlugin: the class declares no
\* such field and its constructor stores no argument, so whatever the plugin
\* was constructed with the property is undefined, and ?. gives undefined
Persian_config(cfg) == NoOptions

PersianConvertTimeToWords(timeStr, cfg) ==
  LET hour       == HourOf(timeStr)
      minute     == MinuteOf(timeStr)
      timePrefix == Coalesce(Persian_config(cfg).customTimePrefix, Persian_TIME_PREFIX)
  IN  Template(TimeError(timeStr), <<
               PersianConvertNumber(NumberToString(HourOf(timeStr)), NoOptions), Unsaid(minute = 0,
               PersianConvertNumber(NumberToString(MinuteOf(timeStr)), NoOptions))>>,
               IF minute = 0 THEN <<timePrefix \o " ", "", "">>
               ELSE <<timePrefix \o " ", " o ", " daghigheh">>)

\* HarfizerConverter.convertTimeToWords: the prefix of the configuration, the
\* numbers converted by this.convert
HarfizerConvertTimeToWords(timeStr, cfg) ==
  LET hour       == HourOf(timeStr)
      minute     == MinuteOf(timeStr)
      timePrefix == Coalesce(cfg.customTimePrefix, Persian_TIME_PREFIX)
  IN  Template(TimeError(timeStr), <<
               HarfizerConvert(NumberToString(HourOf(timeStr)), cfg, NoOptions), Unsaid(minute = 0,
               HarfizerConvert(NumberToString(MinuteOf(timeStr)), cfg, NoOptions))>>,
               IF minute = 0 THEN <<timePrefix \o " ", "", "">>
               ELSE <<timePrefix \o " ", " o ", " daghigheh">>)

EnglishConvertTimeToWords(timeStr) ==
  LET hour   == HourOf(timeStr)
      minute == MinuteOf(timeStr)
  IN  Template(TimeError(timeStr), <<
               EnglishConvertNumber(NumberToString(HourOf(timeStr)), NoOptions), Unsaid(minute = 0,
               EnglishConvertNumber(NumberToString(MinuteOf(timeStr)), NoOptions))>>,
               IF minute = 0 THEN <<"It is ", " o'clock", "">>
               ELSE <<"It is ", " o'clock and ", " minutes">>)

\* both numbers are converted before the sentence is chosen
GermanConvertTimeToWords(timeStr) ==
  LET hour   == HourOf(timeStr)
      minute == MinuteOf(timeStr)
  IN  Template(TimeError(timeStr), <<
               GermanConvertNumber(NumberToString(HourOf(timeStr)), NoOptions), Unsaid(minute = 0,
               GermanConvertNumber(NumberToString(MinuteOf(timeStr)), NoOptions))>>,
               IF minute = 0 THEN <<"Es ist ", " Uhr", "">>
               ELSE <<"Es ist ", " Uhr und ", " Minuten">>)

French_UNE == "une"

\* the minute is converted only when it is above 0
FrenchConvertTimeToWords(timeStr) ==
  LET hour   == HourOf(timeStr)
      minute == MinuteOf(timeStr)
      heure  == " heure" \o (IF hour # 1 THEN "s" ELSE "")
  IN  Template(TimeError(timeStr), <<
               (IF hour = 1 THEN Returned(French_UNE) ELSE FrenchConvertNumber(NumberToString(HourOf(timeStr)), NoOptions)),
               (IF minute > 0 THEN IF minute = 1 THEN Returned(French_UNE) ELSE FrenchConvertNumber(NumberToString(MinuteOf(timeStr)), NoOptions) ELSE Returned(""))>>,
               IF minute > 0
                 THEN <<"Il est ", heure \o " ",
                        " minute" \o (IF minute = 1 THEN "" ELSE "s")>>
                 ELSE <<"Il est ", heure, "">>)

\* An hour kept on the twenty-four-hour clock.
Hour12_TwentyFour(hour) == hour

\* hour12
Hour12(hour) == IF hour % 12 = 0 THEN 12 ELSE hour % 12

\* the hour is said on the twelve-hour clock, and one o'clock by its own words
SpanishConvertTimeToWords(timeStr) ==
  LET hour   == HourOf(timeStr)
      minute == MinuteOf(timeStr)
      hour12 == Hour12(hour)
  IN  Template(TimeError(timeStr),
               <<Unsaid(hour12 = 1,
               SpanishConvertNumber(NumberToString(Hour12(HourOf(timeStr))), NoOptions)), Unsaid(minute = 0,
               SpanishConvertNumber(NumberToString(MinuteOf(timeStr)), NoOptions))>>,
               IF minute = 0
                 THEN IF hour12 = 1 THEN <<"Es la una en punto", "", "">>
                      ELSE <<"Son las ", " en punto", "">>
                 ELSE IF hour12 = 1 THEN <<"Es la una", " y ", " minutos">>
                      ELSE <<"Son las ", " y ", " minutos">>)

\* getHourSuffix(hour)
RussianGetHourSuffix(hour) ==
  IF hour % 10 = 1 /\ hour % 100 # 11 THEN "chas"
  ELSE IF (hour % 10) \in {2, 3, 4} /\ (hour % 100) \notin {12, 13, 14} THEN "chasa"
  ELSE "chasov"

\* A minute suffix chosen by the last digit alone.
RussianGetMinuteSuffix_LastDigitOnly(minute) ==
  IF minute % 10 = 1 THEN "minuta"
  ELSE IF (minute % 10) \in {2, 3, 4} THEN "minuty"
  ELSE "minut"

\* getMinuteSuffix(minute)
RussianGetMinuteSuffix(minute) ==
  IF minute % 10 = 1 /\ minute % 100 # 11 THEN "minuta"
  ELSE IF (minute % 10) \in {2, 3, 4} /\ (minute % 100) \notin {12, 13, 14} THEN "minuty"
  ELSE "minut"

RussianConvertTimeToWords(timeStr) ==
  LET hour   == HourOf(timeStr)
      minute == MinuteOf(timeStr)
  IN  Template(TimeError(timeStr), <<
               RussianConvertNumber(NumberToString(HourOf(timeStr)), NoOptions), Unsaid(minute = 0,
               RussianConvertNumber(NumberToString(MinuteOf(timeStr)), NoOptions))>>,
               IF minute = 0 THEN <<"", " " \o RussianGetHourSuffix(hour), "">>
               ELSE <<"", " " \o RussianGetHourSuffix(hour) \o " ",
                      " " \o RussianGetMinuteSuffix(minute)>>)

\* the minute is converted only when it is not 0
ChineseConvertTimeToWords(timeStr) ==
  LET hour   == HourOf(timeStr)
      minute == MinuteOf(timeStr)
  IN  Template(TimeError(timeStr), <<
               ChineseConvertNumber(NumberToString(HourOf(timeStr)), NoOptions),
               (IF minute # 0 THEN ChineseConvertNumber(NumberToString(MinuteOf(timeStr)), NoOptions) ELSE Returned(""))>>,
               IF minute # 0 THEN <<"", "Shii", "Fen">> ELSE <<"", "Shii", "">>)

JapaneseConvertTimeToWords(timeStr) ==
  LET hour   == HourOf(timeStr)
      minute == MinuteOf(timeStr)
  IN  Template(TimeError(timeStr), <<
               JapaneseConvertNumber(NumberToString(HourOf(timeStr)), NoOptions),
               (IF minute # 0 THEN JapaneseConvertNumber(NumberToString(MinuteOf(timeStr)), NoOptions) ELSE Returned(""))>>,
               IF minute # 0 THEN <<"", "Ji", "Fun">> ELSE <<"", "Ji", "">>)

\* plugin.convertTimeToWords(timeStr); cfg is what the plugin was constructed
\* with
ConvertTimeToWords(p, timeStr, cfg) ==
  CASE p = "persian"  -> PersianConvertTimeToWords(timeStr, cfg)
    [] p = "english"  -> EnglishConvertTimeToWords(timeStr)
    [] p = "german"   -> GermanConvertTimeToWords(timeStr)
    [] p = "french"   -> FrenchConvertTimeToWords(timeStr)
    [] p = "spanish"  -> SpanishConvertTimeToWords(timeStr)
    [] p = "russian"  -> RussianConvertTimeToWords(timeStr)
    [] p = "chinese"  -> ChineseConvertTimeToWords(timeStr)
    [] p = "japanese" -> JapaneseConvertTimeToWords(timeStr)

\* CoreConverter.convertTimeToWords(timeStr)
ConvertTimeToWordsCall ==
  /\ plugin \in Plugins /\ operation = "convertTimeToWords" /\ result = Pending
  /\ result' = ConvertTimeToWords(plugin, input, config)
  /\ UNCHANGED call

HarfizerConvertTimeToWordsCall ==
  /\ plugin = "harfizer" /\ operation = "convertTimeToWords" /\ result = Pending
  /\ result' = HarfizerConvertTimeToWords(input, config)
  /\ UNCHANGED call

\* n written with two digits
TwoDigits(n) == (IF n < 10 THEN "0" ELSE "") \o NumberToString(n)

\* every time of the day written HH:mm
ClockTimes == {TwoDigits(h) \o ":" \o TwoDigits(m) : h \in 0..23, m \in 0..59}

\* hours and minutes that are out of range, signed, unpadded, not numbers or
\* only begin as one, under the colon
HourTexts == {"00", "09", "23", "24", "25", "99", "-1", "-0", "+5", "9", " 7", "1x", "x", ""}

MinuteTexts == {"00", "05", "59", "60", "99", "-5", "5", " 5", "5x", "x", ""}

\* and texts that have not two parts
TimeInputs ==
  ClockTimes
  \cup {h \o ":" \o m : h \in HourTexts, m \in MinuteTexts}
  \cup {"", "9-05", "0905", "12", "12:30:45", "::", "9.05", "12:30:"}

TimePrefixes == {Absent, Given("zaman"), Given("")}

\* the configuration an engine is constructed with
TimeConfigs == {[NoOptions EXCEPT !.customTimePrefix = t] : t \in TimePrefixes}

TimeInit ==
  /\ plugin \in Plugins \cup {"harfizer"}
  /\ operation = "convertTimeToWords"
  /\ input \in TimeInputs
  /\ options = NoOptions
  /\ config \in (IF plugin \in {"harfizer", "persian"} THEN TimeConfigs ELSE {NoOptions})
  /\ calendar = Omitted
  /\ result = Pending
  /\ initial = [options |-> options, config |-> config]

TimeNext ==
  \/ ConvertTimeToWordsCall
  \/ HarfizerConvertTimeToWordsCall

TimeSpec == TimeInit /\ [][TimeNext]_vars

(***************************************************************************)
(* C17: the checks of a time, in their order                               *)
(***************************************************************************)
\* C17: a time conversion raises the first of these that applies: the HH:mm
\* format error when the input split on ":" has not two parts, the numeric
\* error when the hour or the minute does not parse to a number, the hour
\* error when the hour is outside 0..23, the minute error when the minute is
\* outside 0..59; and it succeeds otherwise, so for every time of the day
\* written HH:mm.
C17_TimeChecksInOrder ==
  LET parts  == SplitOn(input, {":"})
      hour   == ParseIntPrefix(parts[1])
      minute == ParseIntPrefix(parts[2])
  IN  (operation = "convertTimeToWords" /\ result # Pending)
      => /\ IF Len(parts) # 2 THEN result = Thrown(InvalidTimeFormat)
            ELSE IF hour = NaN \/ minute = NaN THEN result = Thrown(InvalidTimeNumbers)
            ELSE IF hour.value \notin 0..23 THEN result = Thrown(InvalidHour)
            ELSE IF minute.value \notin 0..59 THEN result = Thrown(InvalidMinute)
            ELSE result.status = "returned"
         /\ input \in ClockTimes => result.status = "returned"

\* hour and minute both out of range: the hour is reported
C17_Witness ==
  /\ operation = "convertTimeToWords" /\ input = "25:99"
  /\ result = Thrown(InvalidHour)

(***************************************************************************)
(* C18: the hour phrase and the minutes clause                             *)
(***************************************************************************)
\* convertTimeToWords of the engine of the call
TimeWords(timeStr) ==
  IF plugin = "harfizer" THEN HarfizerConvertTimeToWords(timeStr, config)
  ELSE ConvertTimeToWords(plugin, timeStr, config)

\* the words of a number of hours or minutes
Said(n) == Words(NumberToString(n)).value

\* C18 as stated: for a time of the day with minutes above 0 the output is
\* the output of the same hour with minutes 0, followed by something more.
C18_MinutesFollowTheOutputOnTheHour ==
  LET onTheHour == TimeWords(TwoDigits(HourOf(input)) \o ":00").value
  IN  (/\ operation = "convertTimeToWords" /\ result # Pending
       /\ input \in ClockTimes /\ MinuteOf(input) >= 1)
      => /\ StartsWith(result.value, onTheHour)
         /\ Len(result.value) > Len(onTheHour)

\* the hour phrase of each locale
HourPhrase(p, hour) ==
  CASE p = "persian"  -> Persian_TIME_PREFIX \o " " \o Said(hour)
    [] p = "harfizer" -> Coalesce(config.customTimePrefix, Persian_TIME_PREFIX)
                           \o " " \o Said(hour)
    [] p = "english"  -> "It is " \o Said(hour) \o " o'clock"
    [] p = "german"   -> "Es ist " \o Said(hour) \o " Uhr"
    [] p = "french"   -> IF hour = 1 THEN "Il est une heure"
                         ELSE "Il est " \o Said(hour) \o " heures"
    [] p = "spanish"  -> IF hour \in {1, 13} THEN "Es la una"
                         ELSE "Son las " \o Said(IF hour \in {0, 12} THEN 12 ELSE hour % 12)
    [] p = "russian"  -> Said(hour) \o " " \o RussianGetHourSuffix(hour)
    [] p = "chinese"  -> Said(hour) \o "Shii"
    [] p = "japanese" -> Said(hour) \o "Ji"

\* the minutes clause of each locale, for a minute in 1..59
MinutesClause(p, minute) ==
  CASE p \in {"persian", "harfizer"} -> " o " \o Said(minute) \o " daghigheh"
    [] p = "english"  -> " and " \o Said(minute) \o " minutes"
    [] p = "german"   -> " und " \o Said(minute) \o " Minuten"
    [] p = "french"   -> IF minute = 1 THEN " une minute"
                         ELSE " " \o Said(minute) \o " minutes"
    [] p = "spanish"  -> " y " \o Said(minute) \o " minutos"
    [] p = "russian"  -> " " \o Said(minute) \o " " \o RussianGetMinuteSuffix(minute)
    [] p = "chinese"  -> Said(minute) \o "Fen"
    [] p = "japanese" -> Said(minute) \o "Fun"

\* what stands for the minutes clause on the hour
OnTheHourClause(p) == IF p = "spanish" THEN " en punto" ELSE ""

\* C18, amended: for every time of the day the output is the locale's hour
\* phrase followed, when the minutes are above 0, by its minutes clause; on
\* the hour nothing follows the hour phrase, except in Spanish, where
\* " en punto" does.
C18_HourPhraseThenMinutesClause ==
  (operation = "convertTimeToWords" /\ result # Pending /\ input \in ClockTimes)
  => result = Returned(HourPhrase(plugin, HourOf(input))
                         \o (IF MinuteOf(input) = 0 THEN OnTheHourClause(plugin)
                             ELSE MinutesClause(plugin, MinuteOf(input))))

\* six o'clock in the evening in Spanish, and five past nine
C18_Witness ==
  /\ plugin = "spanish"
  /\ \/ input = "18:00" /\ result = Returned("Son las seis en punto")
     \/ input = "09:05" /\ result = Returned("Son las nueve y cinco minutos")

(***************************************************************************)
(* C19: the custom time prefix                                             *)
(***************************************************************************)
\* the Persian output of the engine of the call when nothing is configured
DefaultTimeWords(timeStr) ==
  IF plugin = "harfizer" THEN HarfizerConvertTimeToWords(timeStr, NoOptions)
  ELSE PersianConvertTimeToWords(timeStr, NoOptions)

\* C19: in HarfizerConverter and in the Persian plugin under CoreConverter,
\* the output of a time conversion begins with the customTimePrefix of the
\* configuration in place of the default prefix and is otherwise the output
\* without configuration, which begins with the default prefix.
C19_CustomTimePrefixReplacesDefault ==
  LET unconfigured == DefaultTimeWords(input).value
      timePrefix   == Coalesce(config.customTimePrefix, Persian_TIME_PREFIX)
  IN  (/\ operation = "convertTimeToWords" /\ result.status = "returned"
       /\ plugin \in {"persian", "harfizer"})
      => /\ StartsWith(unconfigured, Persian_TIME_PREFIX \o " ")
         /\ result.value = timePrefix
                             \o SubstringFrom(unconfigured, Len(Persian_TIME_PREFIX))

(***************************************************************************)
(* C20: calls one after another on shared objects                          *)
(*                                                                         *)
(* Every method is synchronous, so calls interleave as whole calls: one    *)
(* ends before the next begins.  The objects that outlive a call are the   *)
(* options object of the caller, the configuration of the HarfizerConverter *)
(* instance and the static tables of the classes, which no statement of    *)
(* the source writes to (every push and unshift is on an array that the    *)
(* call created).                                                          *)
(***************************************************************************)
\* the engines that are called: the eight plugins, one HarfizerConverter
\* instance and the static HarfizerConverter.toWords
CallEngines == Engines

\* the methods each of them has
Supports(p, op) ==
  IF p = "harfizerStatic" THEN op = "convertNumber"
  ELSE op \in {"convertNumber", "convertTripleToWords", "convertDateToWords",
               "convertTimeToWords"}

\* the arguments of the calls: method, input, calendar
CallChoices ==
  {<<"convertNumber", in, Omitted>> : in \in {"0", "-12", "1021", "1000.25", "12x"}}
  \cup {<<"convertTripleToWords", in, Omitted>> : in \in {"7", "021"}}
  \cup {<<"convertDateToWords", in, cal>> :
          in \in {"1404/03/24", "2023-04-05", "2023/13/05"}, cal \in Calendars}
  \cup {<<"convertTimeToWords", in, Omitted>> : in \in {"09:05", "18:00", "25:99"}}

\* the options object that the caller passes to every call
SharedOptions ==
  {NoOptions,
   [NoOptions EXCEPT !.customSeparator = Given(" - ")],
   [NoOptions EXCEPT !.customZeroWord = Given("hich"),
                     !.customNegativeWord = Given("menha ")],
   [NoOptions EXCEPT !.customLexicon = [given |-> TRUE, val |-> CustomLexicon]]}

\* the configuration the HarfizerConverter instance is constructed with
SharedConfigs ==
  {NoOptions,
   [NoOptions EXCEPT !.customTimePrefix = Given("zaman")],
   [NoOptions EXCEPT !.customSeparator = Given(", ")]}

\* the first call is HarfizerConverter.convert
CallsInit ==
  /\ plugin = "harfizer"
  /\ operation = "convertNumber"
  /\ input \in {c[2] : c \in {d \in CallChoices : d[1] = "convertNumber"}}
  /\ calendar = Omitted
  /\ options \in SharedOptions
  /\ config \in SharedConfigs
  /\ result = Pending
  /\ initial = [options |-> options, config |-> config]

\* the caller takes the result and makes another call, of the same engine or
\* of another, with the same options object; the instances stay as they are
NextCall ==
  /\ result # Pending
  /\ \E p \in CallEngines, c \in CallChoices :
       /\ Supports(p, c[1])
       /\ plugin' = p /\ operation' = c[1] /\ input' = c[2] /\ calendar' = c[3]
  /\ result' = Pending
  /\ UNCHANGED <<options, config, initial>>

CallsNext ==
  \/ PersianCall
  \/ EnglishCall
  \/ GermanCall
  \/ FrenchCall
  \/ SpanishCall
  \/ RussianCall
  \/ ChineseCall
  \/ JapaneseCall
  \/ HarfizerConvertCall
  \/ HarfizerToWordsCall
  \/ ConvertTripleToWordsCall
  \/ HarfizerConvertTripleToWordsCall
  \/ ConvertDateToWordsCall
  \/ HarfizerConvertDateToWordsCall
  \/ ConvertTimeToWordsCall
  \/ HarfizerConvertTimeToWordsCall
  \/ NextCall

CallsSpec == CallsInit /\ [][CallsNext]_vars

\* the result of a call that runs alone, on objects as they were built
Alone(p, op, in, opts, cfg, cal) ==
  CASE op = "convertNumber"        -> Convert(p, in, cfg, opts)
    [] op = "convertTripleToWords" ->
         IF p = "harfizer" THEN HarfizerConvertTripleToWordsResult(in, opts.customLexicon)
         ELSE ConvertTripleToWords(p, in, opts.customLexicon, opts.customSeparator)
    [] op = "convertDateToWords"   ->
         IF p = "harfizer" THEN HarfizerConvertDateToWords(in, cal, cfg)
         ELSE ConvertDateToWords(p, in, cal)
    [] op = "convertTimeToWords"   ->
         IF p = "harfizer" THEN HarfizerConvertTimeToWords(in, cfg)
         ELSE ConvertTimeToWords(p, in, cfg)

SameResultAsAlone ==
  result # Pending
    => result = Alone(plugin, operation, input, initial.options, initial.config,
                      calendar)

SharedObjectsKept == options' = options /\ config' = config

CoreConverter_convertDateToWords_CalendarDropped(thisPlugin, dateStr, cal) ==
  [plugin |-> thisPlugin, args |-> <<dateStr, Omitted>>]

\* return this.plugin.convertNumber(input, options)
CoreConverter_convertNumber(thisPlugin, in, opts) ==
  [plugin |-> thisPlugin, args |-> <<in, opts>>]

\* return this.plugin.convertTripleToWords(num, lexicon, separator)
CoreConverter_convertTripleToWords(thisPlugin, num, lexicon, separator) ==
  [plugin |-> thisPlugin, args |-> <<num, lexicon, separator>>]

\* return this.plugin.convertDateToWords(dateStr, calendar)
CoreConverter_convertDateToWords(thisPlugin, dateStr, cal) ==
  [plugin |-> thisPlugin, args |-> <<dateStr, cal>>]

\* return this.plugin.convertTimeToWords(timeStr)
CoreConverter_convertTimeToWords(thisPlugin, timeStr) ==
  [plugin |-> thisPlugin, args |-> <<timeStr>>]

\* static toWords(plugin, input, options): return plugin.convertNumber(input, options)
CoreConverter_toWords(p, in, opts) ==
  [plugin |-> p, args |-> <<in, opts>>]

CoreConvertNumberCall ==
  /\ plugin \in Plugins /\ operation = "convertNumber" /\ result = Pending
  /\ LET forwarded == CoreConverter_convertNumber(plugin, input, options)
     IN  result' = ConvertNumber(forwarded.plugin, forwarded.args[1], forwarded.args[2])
  /\ UNCHANGED call

CoreConvertTripleToWordsCall ==
  /\ plugin \in Plugins /\ operation = "convertTripleToWords" /\ result = Pending
  /\ LET forwarded == CoreConverter_convertTripleToWords(
                        plugin, input, options.customLexicon, options.customSeparator)
     IN  result' = ConvertTripleToWords(forwarded.plugin, forwarded.args[1],
                                        forwarded.args[2], forwarded.args[3])
  /\ UNCHANGED call

CoreConvertDateToWordsCall ==
  /\ plugin \in Plugins /\ operation = "convertDateToWords" /\ result = Pending
  /\ LET forwarded == CoreConverter_convertDateToWords(plugin, input, calendar)
     IN  result' = ConvertDateToWords(forwarded.plugin, forwarded.args[1],
                                      forwarded.args[2])
  /\ UNCHANGED call

\* config is what the plugin of the wrapper was constructed with
CoreConvertTimeToWordsCall ==
  /\ plugin \in Plugins /\ operation = "convertTimeToWords" /\ result = Pending
  /\ LET forwarded == CoreConverter_convertTimeToWords(plugin, input)
     IN  result' = ConvertTimeToWords(forwarded.plugin, forwarded.args[1], config)
  /\ UNCHANGED call

CoreToWordsCall ==
  /\ plugin \in Plugins /\ operation = "toWords" /\ result = Pending
  /\ LET forwarded == CoreConverter_toWords(plugin, input, options)
     IN  result' = ConvertNumber(forwarded.plugin, forwarded.args[1], forwarded.args[2])
  /\ UNCHANGED call

CoreDateInputs ==
  {"2023/04/05", "1402-07-15", "2023/13/05", "2023/04", "2023/0x/05",
   "1/1/1", "2023/04/5x", "", "0/12/31"}

CoreTimeInputs ==
  {"09:05", "18:00", "00:00", "01:00", "13:30", "23:59", "24:00", "12:60",
   "x:10", "1230", ""}

\* the calls of the wrapper: numbers with every choice of options, a group
\* with a lexicon and a separator argument given or left out, dates with and
\* without a calendar, times
CoreInit ==
  /\ plugin \in Plugins
  /\ \/ /\ operation \in {"convertNumber", "toWords"}
        /\ input \in OptionInputs \cup {"", "abc", "1.2.3"}
        /\ options \in OptionChoices
        /\ calendar = Omitted
     \/ /\ operation = "convertTripleToWords"
        /\ input \in GroupInputs(plugin)
        /\ options \in {[NoOptions EXCEPT !.customLexicon = l, !.customSeparator = s] :
                          l \in (IF plugin = "persian" THEN LexiconChoices
                                                       ELSE {AbsentTable}),
                          s \in {Absent, Given(" - ")}}
        /\ calendar = Omitted
     \/ /\ operation = "convertDateToWords"
        /\ input \in CoreDateInputs
        /\ options = NoOptions
        /\ calendar \in Calendars
     \/ /\ operation = "convertTimeToWords"
        /\ input \in CoreTimeInputs
        /\ options = NoOptions
        /\ calendar = Omitted
  /\ config = NoOptions
  /\ result = Pending
  /\ initial = [options |-> options, config |-> config]

CoreNext ==
  \/ CoreConvertNumberCall
  \/ CoreConvertTripleToWordsCall
  \/ CoreConvertDateToWordsCall
  \/ CoreConvertTimeToWordsCall
  \/ CoreToWordsCall

CoreSpec == CoreInit /\ [][CoreNext]_vars

\* What the plugin's own method gives when the caller calls it with the
\* arguments of the state, without the wrapper.
PluginResult ==
  CASE operation \in {"convertNumber", "toWords"} ->
         ConvertNumber(plugin, input, options)
    [] operation = "convertTripleToWords" ->
         ConvertTripleToWords(plugin, input, options.customLexicon,
                              options.customSeparator)
    [] operation = "convertDateToWords" ->
         ConvertDateToWords(plugin, input, calendar)
    [] operation = "convertTimeToWords" ->
         ConvertTimeToWords(plugin, input, config)

\* C21: every call through CoreConverter (convertNumber, convertTripleToWords,
\* convertDateToWords, convertTimeToWords and the static toWords) ends with
\* exactly the string the plugin's method returns for the same arguments, or
\* with the same error.
C21_CoreConverterDelegates ==
  result # Pending => result = PluginResult

\* a Persian date under the Gregorian calendar, whose words are not those of
\* the same date without the calendar argument; and a German date
C21_Witness ==
  \/ /\ plugin = "persian" /\ operation = "convertDateToWords"
     /\ input = "2023/04/05" /\ calendar = "gregorian"
     /\ result = PersianConvertDateToWords("2023/04/05", "gregorian")
     /\ result # PersianConvertDateToWords("2023/04/05", Omitted)
     /\ result.status = "returned"
  \/ /\ plugin = "german" /\ operation = "convertDateToWords"
     /\ input = "2023/04/05"
     /\ result = Returned("April 5, zwei tausend dreiundzwanzig")

\* ---------------------------------------------------------------------------
\* French: the numbers 70..79 of a group
\* ---------------------------------------------------------------------------

\* The French word for 70..79: 'soixante-' and the word for n - 60, with
\* 'soixante et onze' for 71.
French_Seventies(n) ==
  IF n = 71 THEN "soixante et onze"
  ELSE "soixante-" \o FrenchConvertBelowHundred(n - 60)

\* C22: in the French plugin a group whose value without its hundreds is
\* between 70 and 79 ends with 'soixante-' followed by the word for that value
\* less 60 ('soixante-dix' ... 'soixante-dix-neuf'), and with
\* 'soixante et onze' for 71.
C22_FrenchSeventiesOnSixty ==
  (/\ plugin = "french" /\ operation = "convertTripleToWords"
   /\ result # Pending
   /\ (ParseInt(input) % 100) \in 70..79)
  => /\ result.status = "returned"
     /\ EndsWith(result.value, French_Seventies(ParseInt(input) % 100))

\* ---------------------------------------------------------------------------
\* Chinese: the zero filler inside a group
\* ---------------------------------------------------------------------------

\* The digit of n at position k (0 the units, 3 the thousands).
DigitAt(n, k) == (n \div <<1, 10, 100, 1000>>[k + 1]) % 10

\* The word of a non-zero digit at its position: the digit and the unit of
\* the position, the digit left out before Qian and before Shi when it is 1.
PositionWord(d, k) ==
  CASE k = 3 -> (IF d = 1 THEN "" ELSE At(Chinese_digits, d)) \o Chinese_THOUSAND
    [] k = 2 -> At(Chinese_digits, d) \o Chinese_HUNDRED
    [] k = 1 -> (IF d = 1 THEN "" ELSE At(Chinese_digits, d)) \o Chinese_TEN
    [] k = 0 -> At(Chinese_digits, d)

\* Position k follows a gap: the position above it is zero and a position
\* above that one is not.
AfterGap(n, k) ==
  /\ DigitAt(n, k) # 0
  /\ k < 3 /\ DigitAt(n, k + 1) = 0
  /\ \E j \in (k + 2)..3 : DigitAt(n, j) # 0

\* The number of gaps of n: runs of zero positions between two non-zero ones.
Gaps(n) == Cardinality({k \in 0..3 : AfterGap(n, k)})

\* The group written position by position, the filler once before every
\* position that follows a gap and nowhere else.
FilledGroup(n) ==
  Join([i \in 1..4 |->
          IF DigitAt(n, 4 - i) = 0 THEN ""
          ELSE (IF AfterGap(n, 4 - i) THEN Chinese_ZERO_WORD ELSE "")
                 \o PositionWord(DigitAt(n, 4 - i), 4 - i)], "")

\* C23: in the Chinese plugin the words of a group below 10000 carry the
\* filler Ling exactly where zero positions lie between two non-zero
\* positions, once for each such gap, and none between adjacent non-zero
\* digits or for trailing zeros.
C23_ChineseFillerOncePerGap ==
  (/\ plugin = "chinese" /\ operation = "convertTripleToWords"
   /\ result # Pending /\ ParseInt(input) > 0)
  => result = Returned(FilledGroup(ParseInt(input)))

C23_Witness ==
  /\ plugin = "chinese" /\ operation = "convertTripleToWords"
  /\ input = "3005" /\ Gaps(3005) = 1
  /\ result = Returned("SanQianLingWu")

\* ---------------------------------------------------------------------------
\* Persian engine: the fractional clause
\* ---------------------------------------------------------------------------

\* The suffix table in force: customDecimalSuffixes of the call, else of the
\* instance, else the default.
EffectiveSuffixes ==
  Coalesce(Resolved.customDecimalSuffixes, Persian_DEFAULT_DECIMAL_SUFFIXES)

\* The clause the claim describes for the fraction digits d.
FractionClause(d) ==
  Persian_DECIMAL_WORD \o Convert(plugin, d, config, NoOptions).value
    \o " " \o At(EffectiveSuffixes, Len(d))

\* C24: in the Persian engine a fraction with digits d (trailing zeros
\* stripped, cut to 11 digits) is rendered as the decimal word, the numeral
\* conversion of d, a space and the suffix at index length(d) of the effective
\* suffix table; the index is between 1 and 11, and with the default table the
\* suffix is a defined, non-empty word.
C24_FractionClauseRendered ==
  (/\ plugin \in PersianEngines /\ Called /\ Valid(input)
   /\ Len(IntegerDigits(input)) <= MaxIntegerDigits
   /\ RenderedFraction(input) # "")
  => /\ result.status = "returned"
     /\ EndsWith(result.value, FractionClause(RenderedFraction(input)))
     /\ Len(RenderedFraction(input)) \in 1..11
     /\ EffectiveSuffixes = Persian_DEFAULT_DECIMAL_SUFFIXES
          => At(EffectiveSuffixes, Len(RenderedFraction(input))) \notin {"", "undefined"}

\* ---------------------------------------------------------------------------
\* French and Spanish: the number of the scale word
\* ---------------------------------------------------------------------------

\* The scale word of position k for a group of value g: in French the plural
\* "s" from the millions up when g is above 1, "mille" as it is; in Spanish
\* "millon" for one and "millones" for more.
NumberedScale(p, g, k) ==
  IF p = "french"
    THEN At(French_SCALE, k) \o (IF k >= 2 /\ g > 1 THEN "s" ELSE "")
  ELSE IF k = 2 THEN (IF g = 1 THEN "millon" ELSE "millones")
  ELSE At(Spanish_SCALE, k)

\* The words of the group at position k with its scale word; a French
\* thousand group of value 1 is "mille" alone.
ScaledGroup(p, group, k) ==
  IF k = 0 THEN GroupWords(p, group)
  ELSE IF p = "french" /\ k = 1 /\ ParseInt(group) = 1 THEN "mille"
  ELSE GroupWords(p, group) \o " " \o NumberedScale(p, ParseInt(group), k)

RECURSIVE ScaledGroups(_, _, _)
ScaledGroups(p, digits, k) ==
  IF k < 0 THEN <<>>
  ELSE IF k \in NonZeroGroups(digits, 3)
    THEN <<ScaledGroup(p, GroupAt(digits, 3, k), k)>> \o ScaledGroups(p, digits, k - 1)
  ELSE ScaledGroups(p, digits, k - 1)

\* The value of the group of the input at position k.
GroupValue(k) == ParseInt(GroupAt(IntegerDigits(input), 3, k))

\* C25: in the French plugin the scale word of a group at the millions or
\* above has the plural "s" exactly when the group's value is above 1,
\* "mille" never has it, and a thousand group of value 1 is "mille" alone;
\* in the Spanish plugin the million word is "millon" for a group of value 1
\* and "millones" otherwise.
C25_ScaleWordNumber ==
  (/\ plugin \in {"french", "spanish"} /\ Called /\ options = NoOptions
   /\ WholeNumber(input) /\ ~Signed(input) /\ ~MagnitudeIsZero(input)
   /\ \A k \in NonZeroGroups(IntegerDigits(input), 3) :
        HasIndex(ScaleTableOf(plugin), k))
  => result = Returned(Join(ScaledGroups(plugin, IntegerDigits(input),
                                         GroupCount(IntegerDigits(input), 3) - 1),
                            " "))

C25_Witness ==
  /\ plugin = "french" /\ Called /\ options = NoOptions
  /\ input = "2000000" /\ GroupValue(2) = 2
  /\ result = Returned("deux millions")
  /\ FrenchConvertNumber("1000000", NoOptions) = Returned("un million")
  /\ FrenchConvertNumber("1021", NoOptions) = Returned("mille vingt et un")
  /\ FrenchConvertNumber("12345", NoOptions)
       = Returned("douze mille trois cent quarante-cinq")
  /\ SpanishConvertNumber("2000000", NoOptions) = Returned("dos millones")
  /\ SpanishConvertNumber("1000005", NoOptions).value
       = GroupWords("spanish", "1") \o " millon cinco"

\* ---------------------------------------------------------------------------
\* Russian: the form of the hour word and of the minute word
\* ---------------------------------------------------------------------------

\* The form a count n asks of its noun.
SingularCount(n) == n % 10 = 1 /\ n % 100 # 11

PaucalCount(n) == (n % 10) \in {2, 3, 4} /\ (n % 100) \notin {12, 13, 14}

FormOf(n, singular, paucal, plural) ==
  IF SingularCount(n) THEN singular
  ELSE IF PaucalCount(n) THEN paucal
  ELSE plural

\* The words of the output, and those of them that are forms of a noun.
OutputWords == SplitOn(result.value, {" "})

FormsSaid(forms) ==
  {k \in 1..Len(OutputWords) : OutputWords[k] \in forms}

\* C26: for every hour in 0..23 and every minute in 1..59 the Russian
\* convertTimeToWords says the hour word and the minute word once each, in
\* the singular when n mod 10 = 1 and n mod 100 # 11, in the paucal when
\* n mod 10 is 2, 3 or 4 and n mod 100 is not 12, 13 or 14, and in the plural
\* otherwise.
C26_RussianFormsByCount ==
  (/\ plugin = "russian" /\ operation = "convertTimeToWords"
   /\ result # Pending /\ input \in ClockTimes)
  => /\ result.status = "returned"
     /\ \E k \in 1..Len(OutputWords) :
          /\ FormsSaid({"chas", "chasa", "chasov"}) = {k}
          /\ OutputWords[k] = FormOf(HourOf(input), "chas", "chasa", "chasov")
          /\ Join([i \in 1..(k - 1) |-> OutputWords[i] \o " "], "")
               = Said(HourOf(input)) \o " "
     /\ MinuteOf(input) >= 1
          => /\ FormsSaid({"minuta", "minuty", "minut"}) = {Len(OutputWords)}
             /\ OutputWords[Len(OutputWords)]
                  = FormOf(MinuteOf(input), "minuta", "minuty", "minut")

C26_Witness ==
  /\ plugin = "russian" /\ operation = "convertTimeToWords"
  /\ input = "21:11" /\ result.status = "returned"
  /\ SingularCount(21) /\ ~SingularCount(11) /\ ~PaucalCount(11)
  /\ OutputWords[Len(OutputWords)] = "minut"
  /\ FormsSaid({"chas"}) # {}

\* ---------------------------------------------------------------------------
\* Spanish: the twelve-hour clock
\* ---------------------------------------------------------------------------

\* The number in 1..12 the hour h is called by.
ClockHour(h) == CHOOSE n \in 1..12 : (h + 12 - n) % 12 = 0

\* The same time twelve hours later (or earlier).
TwelveHoursApart(timeStr) ==
  TwoDigits((HourOf(timeStr) + 12) % 24) \o ":" \o TwoDigits(MinuteOf(timeStr))

\* C27: in the Spanish plugin the hour h is said as h12 (12 for h mod 12 = 0,
\* else h mod 12): the output begins with "Es la una" exactly for the hours 1
\* and 13 and otherwise with "Son las" and the words of h12, and the hours h
\* and h + 12 give the same output for every minute.
C27_SpanishTwelveHourClock ==
  (/\ plugin = "spanish" /\ operation = "convertTimeToWords"
   /\ result # Pending /\ input \in ClockTimes)
  => /\ result.status = "returned"
     /\ StartsWith(result.value, "Es la una") <=> HourOf(input) \in {1, 13}
     /\ HourOf(input) \notin {1, 13}
          => \/ result.value = "Son las " \o Said(ClockHour(HourOf(input))) \o " en punto"
             \/ StartsWith(result.value,
                           "Son las " \o Said(ClockHour(HourOf(input))) \o " y ")
     /\ result = SpanishConvertTimeToWords(TwelveHoursApart(input))

C27_Witness ==
  /\ plugin = "spanish" /\ operation = "convertTimeToWords"
  /\ input = "13:30" /\ TwelveHoursApart(input) = "01:30" /\ ClockHour(13) = 1
  /\ result = Returned("Es la una y " \o Said(30) \o " minutos")
  /\ SpanishConvertTimeToWords("00:00") = Returned("Son las " \o Said(12) \o " en punto")

\* ---------------------------------------------------------------------------
\* The shape of the output: no stray separators
\* ---------------------------------------------------------------------------

\* The text neither begins nor ends with the non-empty string s and never
\* has s twice in a row.
NoStray(text, s) ==
  s # "" => /\ ~StartsWith(text, s)
            /\ ~EndsWith(text, s)
            /\ ~Contains(text, s \o s)

\* C28: for every plugin and every valid input of non-zero magnitude the
\* output of convertNumber is not empty, neither begins nor ends with a space
\* or the separator, and has neither two separators in a row nor an empty
\* token between separators, also when the integer part is zero and the
\* fraction is not ("0.5", "-0.5").
C28_NoStraySeparators ==
  (/\ plugin \in Plugins /\ Called /\ options = NoOptions
   /\ Valid(input) /\ ~MagnitudeIsZero(input)
   /\ Len(IntegerDigits(input)) <= MaxIntegerDigits)
  => /\ result.status = "returned"
     /\ result.value # ""
     /\ NoStray(result.value, " ")
     /\ NoStray(result.value, SeparatorOf(plugin))

\* ---------------------------------------------------------------------------
\* HarfizerConverter without configuration and the Persian plugin
\* ---------------------------------------------------------------------------

LegacyInputs ==
  MergeInputs \cup LexiconInputs \cup OptionInputs
    \cup {"", "abc", "1.2.3", "5.", "1,234,567.89", "1-2343-53123",
          Repeat("1", MaxIntegerDigits), Repeat("1", MaxIntegerDigits + 1),
          Repeat("0", MaxIntegerDigits + 1),
          "5." \o Repeat("1", MaxFractionDigits + 1),
          "0." \o Repeat("0", MaxFractionDigits) \o "1",
          "7.5" \o Repeat("0", MaxFractionDigits + 1)}

LegacyOptions ==
  CallOptionChoices \cup OptionChoices
    \cup {[NoOptions EXCEPT !.customLexicon = l] : l \in LexiconChoices}

LegacyInit ==
  /\ plugin \in {"persian", "harfizer"}
  /\ \/ /\ operation = "convertNumber"
        /\ input \in LegacyInputs
        /\ options \in LegacyOptions
     \/ /\ operation = "convertTripleToWords"
        /\ input \in GroupInputs("persian")
        /\ options \in {[NoOptions EXCEPT !.customLexicon = l] : l \in LexiconChoices}
  /\ config = NoOptions
  /\ calendar = Omitted
  /\ result = Pending
  /\ initial = [options |-> options, config |-> config]

LegacyNext ==
  \/ PersianCall
  \/ HarfizerConvertCall
  \/ ConvertTripleToWordsCall
  \/ HarfizerConvertTripleToWordsCall

LegacySpec == LegacyInit /\ [][LegacyNext]_vars

\* What the other of the two implementations gives for the call of this state.
OtherImplementation ==
  CASE plugin = "persian" /\ operation = "convertNumber" ->
         HarfizerConvert(input, NoOptions, options)
    [] plugin = "harfizer" /\ operation = "convertNumber" ->
         PersianConvertNumber(input, options)
    [] plugin = "persian" /\ operation = "convertTripleToWords" ->
         HarfizerConvertTripleToWordsResult(input, options.customLexicon)
    [] plugin = "harfizer" /\ operation = "convertTripleToWords" ->
         ConvertTripleToWords("persian", input, options.customLexicon,
                              options.customSeparator)

\* C29: a HarfizerConverter with an empty configuration and the Persian
\* plugin give the same string or the same error for every input and every
\* options record (convert and convertNumber), and for every value and
\* lexicon (convertTripleToWords).
C29_LegacyAndPluginAgree ==
  (Called /\ config = NoOptions /\ plugin \in {"persian", "harfizer"})
    => result = OtherImplementation

C29_Witness ==
  /\ plugin = "harfizer" /\ operation = "convertNumber" /\ config = NoOptions
  /\ input = "-1021.1234" /\ options.customSeparator = Given(" - ")
  /\ options.customNegativeWord = Given("neg")
  /\ ~options.customLexicon.given /\ ~options.customDecimalSuffixes.given
  /\ result = PersianConvertNumber(input, options)
  /\ result.status = "returned"
  /\ EndsWith(result.value, "yek hezar o devist o si o chahar dah-hezarom")

(***************************************************************************)
(* Distinct integer values, distinct words                                 *)
(***************************************************************************)
\* the digits without their leading zeros ("0" for a value of zero)
RECURSIVE SignificantDigits(_)
SignificantDigits(digits) ==
  IF Len(digits) > 1 /\ Char(digits, 1) = "0"
    THEN SignificantDigits(SubSeq(digits, 2, Len(digits)))
    ELSE digits

\* a valid input without a fraction
ValidInteger(in) == Valid(in) /\ "." \notin {Char(CleanedText(in), i) : i \in 1..Len(CleanedText(in))}

\* the numeric value of a valid integer input: its sign and its significant
\* digits, grouping characters and leading zeros set aside
IntegerValue(in) ==
  [negative |-> Signed(in) /\ ~MagnitudeIsZero(in),
   digits   |-> SignificantDigits(IntegerDigits(in))]

\* the integers every input is compared with: the small ones, the ones of
\* the seventies and nineties, and the first ones of some scale words
ComparedIntegers ==
  {NumberToString(n) : n \in 0..21}
    \cup {"-1", "-15", "60", "65", "70", "75", "80", "90", "95", "100", "101",
          "110", "1000", "1001", "1,000,000", "0015"}
    \cup {"1" \o Repeat("0", k) : k \in {4, 8, 9, 12, 15, 16, 20}}

\* C30: with default options, two valid integer inputs of at most 66 digits
\* and of different numeric values never give the same words.
C30_DistinctValuesDistinctWords ==
  (/\ Called /\ plugin \in Plugins /\ operation = "convertNumber"
   /\ options = NoOptions
   /\ ValidInteger(input) /\ Len(IntegerDigits(input)) <= MaxIntegerDigits
   /\ result.status = "returned")
    => \A other \in ComparedIntegers :
         IntegerValue(other) # IntegerValue(input)
           => ConvertNumber(plugin, other, NoOptions) # result

====
